---- MODULE Spec2Model ----
(***************************************************************************)
(* Invoice extraction and reconciliation engine of interview-invoice-chat. *)
(* Source: src/app/(chat)/api/files/upload/process/route.ts, which holds   *)
(* two variants of the upload route ("earlier": lines 205-1483, "later":   *)
(* lines 1484-3133).                                                       *)
(*                                                                         *)
(* Numbers.  A JavaScript number is modelled as a decimal with two         *)
(* fraction digits, stored as an integer count of hundredths (30.00 is     *)
(* 3000).  A product of two such numbers is exact in ten-thousandths and   *)
(* toFixed(2) rounds it back to hundredths (ties away from zero).  NaN,    *)
(* undefined and strings are separate kinds of value.                      *)
(***************************************************************************)
EXTENDS Integers, Sequences, FiniteSets, TLC

(***************************************************************************)
(* JavaScript values held by the numeric fields of a record.               *)
(***************************************************************************)
Num(n) == [k |-> "num", n |-> n, s |-> <<>>]
NaN == [k |-> "nan", n |-> 0, s |-> <<>>]
Undef == [k |-> "undef", n |-> 0, s |-> <<>>]
Str(s) == [k |-> "str", n |-> 0, s |-> s]

IsNum(v) == v.k = "num"

Abs(x) == IF x < 0 THEN -x ELSE x

Digits == {"0", "1", "2", "3", "4", "5", "6", "7", "8", "9"}

DigitVal(c) ==
  CASE c = "0" -> 0 [] c = "1" -> 1 [] c = "2" -> 2 [] c = "3" -> 3
    [] c = "4" -> 4 [] c = "5" -> 5 [] c = "6" -> 6 [] c = "7" -> 7
    [] c = "8" -> 8 [] c = "9" -> 9

\* The characters kept by  .replace(/[^0-9.-]+/g, '')
KeptChar(c) == c \in Digits \cup {".", "-"}

StripNonNumeric(s) == SelectSeq(s, KeptChar)

RECURSIVE LeadingDigits(_)
LeadingDigits(s) ==
  IF s = <<>> \/ Head(s) \notin Digits THEN <<>>
  ELSE <<Head(s)>> \o LeadingDigits(Tail(s))

RECURSIVE DigitsValue(_)
DigitsValue(s) ==
  IF s = <<>> THEN 0
  ELSE DigitsValue(SubSeq(s, 1, Len(s) - 1)) * 10 + DigitVal(s[Len(s)])

\* Hundredths denoted by the fraction digits (the first two of them).
FractionHundredths(f) ==
  IF f = <<>> THEN 0
  ELSE IF Len(f) = 1 THEN DigitVal(f[1]) * 10
  ELSE DigitVal(f[1]) * 10 + DigitVal(f[2])

\* Number.parseFloat on a string of characters: optional sign, digits,
\* optional point and digits; the rest is ignored; NaN when no digit leads.
ParseFloat(s) ==
  LET neg == s # <<>> /\ Head(s) = "-"
      body == IF neg THEN Tail(s) ELSE s
      ip == LeadingDigits(body)
      rest == SubSeq(body, Len(ip) + 1, Len(body))
      fp == IF rest # <<>> /\ Head(rest) = "." THEN LeadingDigits(Tail(rest)) ELSE <<>>
      mag == DigitsValue(ip) * 100 + FractionHundredths(fp)
  IN IF ip = <<>> /\ fp = <<>> THEN NaN
     ELSE Num(IF neg THEN -mag ELSE mag)

\* Number.parseFloat(value.replace(/[^0-9.-]+/g, ''))
CoerceString(v) == ParseFloat(StripNonNumeric(v.s))

\* JavaScript truthiness of a value.
Truthy(v) ==
  CASE v.k = "num" -> v.n # 0
    [] v.k = "str" -> v.s # <<>>
    [] OTHER -> FALSE

\* ToNumber, as applied by the arithmetic operators.  Inside the reconciler
\* the only string that reaches arithmetic is the empty one (0).
ToNumber(v) ==
  CASE v.k = "num" -> v
    [] v.k = "str" -> IF v.s = <<>> THEN Num(0) ELSE CoerceString(v)
    [] OTHER -> NaN

\* Math.round-style rounding of ten-thousandths to hundredths (toFixed(2)).
RoundToHundredths(x) ==
  IF x >= 0 THEN (x + 50) \div 100 ELSE -((-x + 50) \div 100)

\* a + b on numbers
Add(a, b) ==
  LET x == ToNumber(a)
      y == ToNumber(b)
  IN IF IsNum(x) /\ IsNum(y) THEN Num(x.n + y.n) ELSE NaN

\* Math.abs(a - b) > limit, limit in hundredths; false when either is NaN.
DiffersByMoreThan(a, b, limit) ==
  LET x == ToNumber(a)
      y == ToNumber(b)
  IN IsNum(x) /\ IsNum(y) /\ Abs(x.n - y.n) > limit

(***************************************************************************)
(* Reconciler: validateInvoiceData (later variant, lines 2461-2537).       *)
(***************************************************************************)
AmountTolerance == 10
TotalTolerance == 100

\* if (validated.f && typeof validated.f === 'string') validated.f = parseFloat(...)
CoerceField(v) == IF v.k = "str" /\ Truthy(v) THEN CoerceString(v) ELSE v

\* if (typeof item.f === 'string') item.f = parseFloat(...)
CoerceItemField(v) == IF v.k = "str" THEN CoerceString(v) ELSE v

\* quantity * unitPrice in ten-thousandths, or "nan"
CalculatedAmount(q, p) ==
  LET x == ToNumber(q)
      y == ToNumber(p)
  IN IF IsNum(x) /\ IsNum(y) THEN [ok |-> TRUE, v |-> x.n * y.n]
     ELSE [ok |-> FALSE, v |-> 0]

\* The body of validated.items.map(...)
NormalizeItemWrongFactor(item) ==
  LET q == CoerceItemField(item.quantity)
      p == CoerceItemField(item.unitPrice)
      a == CoerceItemField(item.amount)
      c == CalculatedAmount(q, a)
      am == ToNumber(a)
  IN [description |-> item.description, quantity |-> q, unitPrice |-> p,
      amount |-> IF c.ok /\ IsNum(am) /\ Abs(c.v - am.n * 100) > AmountTolerance * 100
                 THEN Num(RoundToHundredths(c.v)) ELSE a]

NormalizeItemLooseTolerance(item) ==
  LET q == CoerceItemField(item.quantity)
      p == CoerceItemField(item.unitPrice)
      a == CoerceItemField(item.amount)
      c == CalculatedAmount(q, p)
      am == ToNumber(a)
  IN [description |-> item.description, quantity |-> q, unitPrice |-> p,
      amount |-> IF c.ok /\ IsNum(am) /\ Abs(c.v - am.n * 100) > TotalTolerance * 100
                 THEN Num(RoundToHundredths(c.v)) ELSE a]

NormalizeItem(item) ==
  LET q == CoerceItemField(item.quantity)
      p == CoerceItemField(item.unitPrice)
      a == CoerceItemField(item.amount)
      c == CalculatedAmount(q, p)
      am == ToNumber(a)
  IN [description |-> item.description, quantity |-> q, unitPrice |-> p,
      amount |-> IF c.ok /\ IsNum(am) /\ Abs(c.v - am.n * 100) > AmountTolerance * 100
                 THEN Num(RoundToHundredths(c.v)) ELSE a]

NormalizeItems(items) == [i \in 1..Len(items) |-> NormalizeItem(items[i])]

\* validated.items.reduce((sum, item) => sum + item.amount, 0), then toFixed(2)
RECURSIVE SumAmounts(_)
SumAmounts(items) ==
  IF items = <<>> THEN Num(0)
  ELSE Add(SumAmounts(SubSeq(items, 1, Len(items) - 1)), items[Len(items)].amount)

\* Lines 2512-2528: the total after the comparison with the items sum.
ReconcileTotalIgnoringTax(itemsTotal, tax, total) ==
  IF DiffersByMoreThan(itemsTotal, total, TotalTolerance) THEN itemsTotal ELSE total

ReconcileTotal(itemsTotal, tax, total) ==
  IF DiffersByMoreThan(itemsTotal, total, TotalTolerance)
  THEN LET t == IF Truthy(tax) THEN tax ELSE Num(0)
           totalWithTax == Add(itemsTotal, t)
       IN IF IsNum(totalWithTax) /\ IsNum(ToNumber(total))
             /\ Abs(totalWithTax.n - ToNumber(total).n) <= TotalTolerance
          THEN total
          ELSE totalWithTax
  ELSE total

\* Lines 2469-2479 alone: what is done to a record that has no items array
\* (line 2482: validated.items && Array.isArray(validated.items)).
CoerceTotals(d) ==
  [d EXCEPT !.subtotal = CoerceField(d.subtotal), !.tax = CoerceField(d.tax),
            !.total = CoerceField(d.total)]

validateInvoiceData(d) ==
  IF "items" \notin DOMAIN d THEN CoerceTotals(d)
  ELSE
  LET subtotal == CoerceField(d.subtotal)
      tax == CoerceField(d.tax)
      total == CoerceField(d.total)
      items == NormalizeItems(d.items)
  IN [d EXCEPT !.subtotal = subtotal, !.tax = tax, !.items = items,
               !.total = ReconcileTotal(SumAmounts(items), tax, total)]

(***************************************************************************)
(* Reconciler of the earlier variant (lines 1090-1157): the same item      *)
(* pass, but the total is overwritten with the items sum alone.            *)
(***************************************************************************)
ReconcileTotalV1(itemsTotal, total) ==
  IF DiffersByMoreThan(itemsTotal, total, TotalTolerance) THEN itemsTotal ELSE total

validateInvoiceDataV1(d) ==
  IF "items" \notin DOMAIN d THEN CoerceTotals(d)
  ELSE
  LET subtotal == CoerceField(d.subtotal)
      tax == CoerceField(d.tax)
      total == CoerceField(d.total)
      items == NormalizeItems(d.items)
  IN [d EXCEPT !.subtotal = subtotal, !.tax = tax, !.items = items,
               !.total = ReconcileTotalV1(SumAmounts(items), total)]

(***************************************************************************)
(* Result merger: mergeExtractionResults (lines 2320-2372; the earlier     *)
(* variant, lines 942-997, is the same code).                              *)
(***************************************************************************)
StringFields == {"invoiceNumber", "date", "dueDate", "vendor", "customer"}

\* Object.keys(result) of a strategy's record
MergeFields == StringFields \cup {"items", "subtotal", "tax", "total"}

\* The header strings of the model for which value.includes('Unknown') holds.
ContainsUnknown == {"Unknown", "Unknown Vendor", "Unknown Customer"}

\* The descriptions of the model that include 'Unable to extract'.
ContainsUnableToExtract == {"Unable to extract items"}

isEmptyOrDefault(value, field) ==
  CASE field \in StringFields -> value = "" \/ value \in ContainsUnknown
    [] field = "items" ->
         \/ Len(value) = 0
         \/ Len(value) = 1 /\ value[1].description \in ContainsUnableToExtract
    [] OTHER ->
         \/ value.k = "undef"
         \/ value.k = "str" /\ value.s = <<>>
         \/ field = "total" /\ value = Num(0)

\* results.sort((a, b) => b.confidence - a.confidence): stable, descending.
RECURSIVE InsertByConfidence(_, _)
InsertByConfidence(sorted, r) ==
  IF sorted = <<>> THEN <<r>>
  ELSE IF Head(sorted).confidence >= r.confidence
       THEN <<Head(sorted)>> \o InsertByConfidence(Tail(sorted), r)
       ELSE <<r>> \o sorted

\* No sort: the results in the order they were pushed.
SortByConfidenceKeepsOrder(rs) == rs

RECURSIVE SortByConfidence(_)
SortByConfidence(rs) ==
  IF rs = <<>> THEN <<>>
  ELSE InsertByConfidence(SortByConfidence(SubSeq(rs, 1, Len(rs) - 1)), rs[Len(rs)])

\* One pass of the loop at lines 2340-2365 over a lower-confidence result.
\* cur.rec is the running merged record, cur.from the method each field's
\* value was copied from; used is the loop's methodUsed flag.
MergeStepSilentItems(cur, result) ==
  LET d == result.data
      Fill(f) == /\ f \in DOMAIN d
                 /\ f \notin DOMAIN cur.rec \/ isEmptyOrDefault(cur.rec[f], f)
                 /\ ~isEmptyOrDefault(d[f], f)
      filled == [f \in DOMAIN cur.rec \cup {g \in MergeFields : Fill(g)} |->
                   IF f \in MergeFields /\ Fill(f) THEN d[f] ELSE cur.rec[f]]
      more == /\ "items" \in DOMAIN d /\ "items" \in DOMAIN filled
              /\ Len(d.items) > Len(filled.items) /\ Len(filled.items) <= 1
  IN [rec |-> IF more THEN [filled EXCEPT !.items = d.items] ELSE filled,
      used |-> \E f \in MergeFields : Fill(f),
      from |-> [f \in MergeFields |->
                  IF Fill(f) \/ (f = "items" /\ more) THEN result.method ELSE cur.from[f]]]

MergeStep(cur, result) ==
  LET d == result.data
      Fill(f) == /\ f \in DOMAIN d
                 /\ f \notin DOMAIN cur.rec \/ isEmptyOrDefault(cur.rec[f], f)
                 /\ ~isEmptyOrDefault(d[f], f)
      filled == [f \in DOMAIN cur.rec \cup {g \in MergeFields : Fill(g)} |->
                   IF f \in MergeFields /\ Fill(f) THEN d[f] ELSE cur.rec[f]]
      more == /\ "items" \in DOMAIN d /\ "items" \in DOMAIN filled
              /\ Len(d.items) > Len(filled.items) /\ Len(filled.items) <= 1
  IN [rec |-> IF more THEN [filled EXCEPT !.items = d.items] ELSE filled,
      used |-> (\E f \in MergeFields : Fill(f)) \/ more,
      from |-> [f \in MergeFields |->
                  IF Fill(f) \/ (f = "items" /\ more) THEN result.method ELSE cur.from[f]]]

\* The running state after the highest-confidence result and after each
\* lower-confidence one, in sorted order.
RECURSIVE MergeStates(_)
MergeStates(sorted) ==
  IF Len(sorted) = 1
  THEN <<[rec |-> sorted[1].data, used |-> TRUE,
          from |-> [f \in MergeFields |-> sorted[1].method]]>>
  ELSE LET before == MergeStates(SubSeq(sorted, 1, Len(sorted) - 1))
       IN Append(before, MergeStep(before[Len(before)], sorted[Len(sorted)]))

\* usedMethods: the first method, then every method whose pass set methodUsed.
UsedMethods(sorted, states) ==
  LET listed == {i \in 1..Len(sorted) : states[i].used}
      F[i \in 0..Len(sorted)] ==
        IF i = 0 THEN <<>>
        ELSE IF i \in listed THEN Append(F[i - 1], sorted[i].method) ELSE F[i - 1]
  IN F[Len(sorted)]

\* The merged record before the closing validateInvoiceData.
MergedFields(results) ==
  LET sorted == SortByConfidence(results)
      states == MergeStates(sorted)
  IN [states[Len(states)].rec EXCEPT !.extractionMethods = UsedMethods(sorted, states)]

mergeExtractionResults(results) == validateInvoiceData(MergedFields(results))

mergeExtractionResultsV1(results) == validateInvoiceDataV1(MergedFields(results))

(***************************************************************************)
(* State.                                                                  *)
(*   data         the record handed to the reconciler                      *)
(*   validated    <<validateInvoiceData(data)>> once computed              *)
(*   validatedV1  <<validateInvoiceDataV1(data)>> once computed            *)
(*   revalidated  <<validateInvoiceData(validated[1])>> once computed      *)
(*   results      the array handed to mergeExtractionResults               *)
(*   merged       <<mergeExtractionResults(results)>> once computed        *)
(* and of a run of extractInvoiceData(buffer):                             *)
(*   variant           which of the file's two route variants runs         *)
(*   fileSignature     what the first bytes of the buffer say it is        *)
(*   GEMINI_API_KEY, OPENAI_API_KEY   whether process.env holds the key    *)
(*   pdfText           the text pdf.js reads from the buffer               *)
(*   extractionResults the results pushed so far                           *)
(*   extractedText     the local of that name                              *)
(*   attempted         the strategies called so far, in call order         *)
(*   failed            the strategies whose call threw or gave no JSON     *)
(*   pc                "idle", the await the run is at, "done" once it     *)
(*                     returned, "thrown" once it threw                    *)
(*   returned          <<the record returned>> once the run returned       *)
(* of a call of extractItemsFromText(text):                                *)
(*   itemText          the text it is given                                *)
(*   foundItems        <<the items it returned>> once computed             *)
(* of a call of validateIsInvoice(candidate):                              *)
(*   candidate         the record it is given                              *)
(*   isInvoice         <<what it returned>> once computed                  *)
(* and of the upload requests (POST, lines 1504-1825) and the database:    *)
(*   upload            per request, the document and what the providers    *)
(*                     and the database driver will answer for it          *)
(*   step              per request, the await the handler is at            *)
(*   awaited           per request, the calls it has awaited so far        *)
(*   extractedData     per request, <<the record extracted>> once it is    *)
(*   inserted          per request, how many of the items were handled     *)
(*   response          per request, <<the response>> once answered         *)
(*   now               per request, the time of its new Date(), 0 before   *)
(*   invoiceTable      the rows of table invoice                           *)
(*   lineItemTable     the rows of table lineItem                          *)
(* of a call of extractInvoiceDataWithRegex(text):                         *)
(*   regexText         the text it is given                                *)
(*   regexData         <<the record it returned>> once computed            *)
(* of a call of preliminaryDocumentTypeCheck(file):                        *)
(*   checkedFile       the type of the file, whether GEMINI_API_KEY is     *)
(*                     set and what the vision call answers for it         *)
(*   checkResult       <<what it returned>> once computed                  *)
(* and of a retrieval by the agent (POST of the process route, lines       *)
(* 18-152):                                                                *)
(*   processRequest    <<the request whose file fileReference names>>      *)
(*   processResponse   <<the response>> once answered                      *)
(***************************************************************************)
VARIABLES data, validated, validatedV1, revalidated, results, merged,
          variant, fileSignature, GEMINI_API_KEY, OPENAI_API_KEY, pdfText,
          extractionResults, extractedText, attempted, failed, pc, returned,
          itemText, foundItems, candidate, isInvoice,
          regexText, regexData,
          checkedFile, checkResult,
          processRequest, processResponse,
          upload, step, awaited, extractedData, now, inserted, response,
          invoiceTable, lineItemTable

reconVars == <<data, validated, validatedV1, revalidated>>

mergeVars == <<results, merged>>

extractVars == <<variant, fileSignature, GEMINI_API_KEY, OPENAI_API_KEY, pdfText,
                 extractionResults, extractedText, attempted, failed, pc, returned>>

parseVars == <<itemText, foundItems>>

validateVars == <<candidate, isInvoice>>

regexVars == <<regexText, regexData>>

checkVars == <<checkedFile, checkResult>>

processVars == <<processRequest, processResponse>>

uploadVars == <<upload, step, awaited, extractedData, now, inserted, response,
                invoiceTable, lineItemTable>>

vars == <<reconVars, mergeVars, extractVars, parseVars, validateVars, uploadVars, regexVars, checkVars, processVars>>

\* The upload requests in flight.
Requests == {"A", "B"}

\* '' and any text of at most 100 characters: nothing is read from it.
EmptyText ==
  [long |-> FALSE, header |-> FALSE, rows |-> <<>>, counted |-> <<>>,
   numbered |-> <<>>, standard |-> <<>>, priced |-> <<>>, currency |-> <<>>,
   date |-> "none", due |-> "none", net |-> 0, subtotal |-> 0, tax |-> 0,
   label |-> "none", amount |-> 0, largest |-> 0, unresolved |-> {}]

ReconcileIdle ==
  /\ data = <<>>
  /\ validated = <<>>
  /\ validatedV1 = <<>>
  /\ revalidated = <<>>

MergeIdle ==
  /\ results = <<>>
  /\ merged = <<>>

ParseIdle ==
  /\ itemText = <<>>
  /\ foundItems = <<>>

ValidateIdle ==
  /\ candidate = <<>>
  /\ isInvoice = <<>>

RegexIdle ==
  /\ regexText = <<>>
  /\ regexData = <<>>

CheckIdle ==
  /\ checkedFile = <<>>
  /\ checkResult = <<>>

ProcessIdle ==
  /\ processRequest = <<>>
  /\ processResponse = <<>>

UploadIdle ==
  /\ upload = [r \in Requests |-> <<>>]
  /\ step = [r \in Requests |-> "idle"]
  /\ awaited = [r \in Requests |-> <<>>]
  /\ extractedData = [r \in Requests |-> <<>>]
  /\ now = [r \in Requests |-> 0]
  /\ inserted = [r \in Requests |-> 0]
  /\ response = [r \in Requests |-> <<>>]
  /\ invoiceTable = {}
  /\ lineItemTable = {}

ExtractIdle ==
  /\ variant = "later"
  /\ fileSignature = "other"
  /\ GEMINI_API_KEY = FALSE
  /\ OPENAI_API_KEY = FALSE
  /\ pdfText = EmptyText
  /\ extractionResults = <<>>
  /\ extractedText = EmptyText
  /\ attempted = <<>>
  /\ failed = {}
  /\ pc = "idle"
  /\ returned = <<>>

(***************************************************************************)
(* Inputs of the reconciler: records whose numeric fields are numbers or   *)
(* numeric strings (section 4.5: "possibly string-typed numeric").         *)
(***************************************************************************)
MaxItems == 2

Quantities == {Num(300), Num(1000), Str(<<"1", ".", "5">>)}
UnitPrices == {Num(1000), Str(<<"$", "0", ".", "3", "3">>)}
Amounts == {Str(<<"2", "5", ".", "0", "0">>), Num(3009), Num(3011), Num(10000)}
Taxes == {Num(0), Num(800), Str(<<"8", ".", "0", "0">>)}
Totals == {Num(10800), Num(15000), Num(10100), Num(10101), Str(<<"$", "1", "0", "8", ".", "0", "0">>)}

ItemInputs ==
  [description : {"Widget"}, quantity : Quantities, unitPrice : UnitPrices, amount : Amounts]

ItemLists == UNION {[1..n -> ItemInputs] : n \in 0..MaxItems}

Header ==
  [invoiceNumber |-> "INV-2024-001", date |-> "03/15/2024", dueDate |-> "04/14/2024",
   vendor |-> "Acme Corp", customer |-> "Beta LLC"]

Record(h, items, subtotal, tax, total, methods) ==
  [invoiceNumber |-> h.invoiceNumber, date |-> h.date, dueDate |-> h.dueDate,
   vendor |-> h.vendor, customer |-> h.customer, items |-> items,
   subtotal |-> subtotal, tax |-> tax, total |-> total, extractionMethods |-> methods]

ReconcileInit ==
  /\ \E items \in ItemLists, tax \in Taxes, total \in Totals :
       data = Record(Header, items, Num(0), tax, total, <<>>)
  /\ validated = <<>>
  /\ validatedV1 = <<>>
  /\ revalidated = <<>>
  /\ MergeIdle
  /\ ExtractIdle
  /\ ValidateIdle
  /\ ParseIdle
  /\ UploadIdle
  /\ ProcessIdle
  /\ CheckIdle
  /\ RegexIdle

Validate ==
  /\ validated = <<>>
  /\ validated' = <<validateInvoiceData(data)>>
  /\ UNCHANGED <<data, validatedV1, revalidated, mergeVars, extractVars, parseVars, validateVars, uploadVars, regexVars, checkVars, processVars>>

ValidateV1 ==
  /\ validatedV1 = <<>>
  /\ validatedV1' = <<validateInvoiceDataV1(data)>>
  /\ UNCHANGED <<data, validated, revalidated, mergeVars, extractVars, parseVars, validateVars, uploadVars, regexVars, checkVars, processVars>>

Revalidate ==
  /\ validated # <<>>
  /\ revalidated = <<>>
  /\ revalidated' = <<validateInvoiceData(validated[1])>>
  /\ UNCHANGED <<data, validated, validatedV1, mergeVars, extractVars, parseVars, validateVars, uploadVars, regexVars, checkVars, processVars>>

ReconcileNext == Validate \/ ValidateV1 \/ Revalidate

SpecReconcile == ReconcileInit /\ [][ReconcileNext]_vars

(***************************************************************************)
(* Inputs of the merger: two or three results of distinct strategies, in   *)
(* any order, each with the confidence its strategy is given.              *)
(***************************************************************************)
Methods == {"gemini", "openai", "regex"}

Confidence(method) ==
  CASE method = "gemini" -> 90 [] method = "openai" -> 85 [] method = "regex" -> 70

DefaultHeader ==
  [invoiceNumber |-> "Unknown", date |-> "", dueDate |-> "",
   vendor |-> "Unknown Vendor", customer |-> "Unknown Customer"]

\* What each strategy reads for a header field it resolves.
HeaderOf(method) ==
  CASE method = "gemini" -> Header
    [] method = "openai" ->
         [invoiceNumber |-> "INV2024001", date |-> "2024-03-15", dueDate |-> "2024-04-14",
          vendor |-> "Acme Corporation", customer |-> "Beta"]
    [] method = "regex" ->
         [invoiceNumber |-> "2024-001", date |-> "15/03/2024", dueDate |-> "14/04/2024",
          vendor |-> "ACME", customer |-> "BETA LLC"]

HeaderWith(method, unresolved) ==
  [f \in StringFields |-> IF f \in unresolved THEN DefaultHeader[f] ELSE HeaderOf(method)[f]]

UnitPriceOf(method) ==
  CASE method = "gemini" -> 1000 [] method = "openai" -> 2000 [] method = "regex" -> 3000

ItemNameOf(method) ==
  CASE method = "gemini" -> "Widget" [] method = "openai" -> "Widget A" [] method = "regex" -> "Widget  2"

\* n consistent line items as the strategy reads them.
GenuineItems(method, n) ==
  [i \in 1..n |-> [description |-> ItemNameOf(method), quantity |-> Num(100 * i),
                   unitPrice |-> Num(UnitPriceOf(method)),
                   amount |-> Num(UnitPriceOf(method) * i)]]

\* Line 2762: what extractItemsFromText returns when it finds nothing.
ItemNotDetected ==
  [description |-> "Item not detected", quantity |-> Num(100), unitPrice |-> Num(0), amount |-> Num(0)]

\* Line 2201: the item of the record returned when no strategy produced a result.
UnableToExtract ==
  [description |-> "Unable to extract items", quantity |-> Num(100), unitPrice |-> Num(0), amount |-> Num(0)]

ItemOptions(method) ==
  {<<>>, <<ItemNotDetected>>, <<UnableToExtract>>} \cup {GenuineItems(method, n) : n \in 1..MaxItems}

NumericOptions(method) ==
  {[subtotal |-> Undef, tax |-> Undef, total |-> Num(0)],
   [subtotal |-> Num(0), tax |-> Num(0), total |-> Num(0)],
   [subtotal |-> Num(UnitPriceOf(method)), tax |-> Num(80), total |-> Num(UnitPriceOf(method) + 80)]}

\* Which header fields a result leaves unresolved.
Profiles == {{}, StringFields} \cup {{f} : f \in StringFields}

StrategyData(method, profiles, numerics) ==
  {Record(HeaderWith(method, u), items, np.subtotal, np.tax, np.total, <<>>) :
     u \in profiles, items \in ItemOptions(method), np \in numerics}

Result(method, d) == [method |-> method, confidence |-> Confidence(method), data |-> d]

Orders(n) == {p \in [1..n -> Methods] : \A i, j \in 1..n : p[i] = p[j] => i = j}

\* Three-way merges draw from the results that resolve every header field
\* or none, with or without totals.
CoarseProfiles == {{}, StringFields}

CoarseNumericOptions(method) ==
  NumericOptions(method) \ {[subtotal |-> Num(0), tax |-> Num(0), total |-> Num(0)]}

MergeInit ==
  /\ \/ \E p \in Orders(2) :
          \E d1 \in StrategyData(p[1], Profiles, NumericOptions(p[1])),
             d2 \in StrategyData(p[2], Profiles, NumericOptions(p[2])) :
            results = <<Result(p[1], d1), Result(p[2], d2)>>
     \/ \E p \in Orders(3) :
          \E d1 \in StrategyData(p[1], CoarseProfiles, CoarseNumericOptions(p[1])),
             d2 \in StrategyData(p[2], CoarseProfiles, CoarseNumericOptions(p[2])),
             d3 \in StrategyData(p[3], CoarseProfiles, CoarseNumericOptions(p[3])) :
            results = <<Result(p[1], d1), Result(p[2], d2), Result(p[3], d3)>>
  /\ merged = <<>>
  /\ ReconcileIdle
  /\ ExtractIdle
  /\ ValidateIdle
  /\ ParseIdle
  /\ UploadIdle
  /\ ProcessIdle
  /\ CheckIdle
  /\ RegexIdle

\* mergeExtractionResults(results); the sort is in place.
Merge ==
  /\ merged = <<>>
  /\ results' = SortByConfidence(results)
  /\ merged' = <<mergeExtractionResults(results)>>
  /\ UNCHANGED <<reconVars, extractVars, parseVars, validateVars, uploadVars, regexVars, checkVars, processVars>>

MergeNext == Merge

SpecMerge == MergeInit /\ [][MergeNext]_vars

(***************************************************************************)
(* Regex strategy: extractInvoiceDataWithRegex (lines 1828-2035; earlier   *)
(* variant 445-660) over the text of a PDF.  A text is described by what   *)
(* the patterns find in it: whether it has more than 100 characters, the   *)
(* rows of its item table as printed (quantity, unit price and amount in   *)
(* hundredths), what each of the other item patterns finds, the date and   *)
(* the due date the date patterns capture ("none" for no match), the N of  *)
(* its "Net N days" terms (0 for none), the amounts after the labels       *)
(* Subtotal and Tax, the label                                             *)
(* under which a total is found with its amount, the largest amount        *)
(* printed with a currency sign, and the header fields no pattern finds.   *)
(***************************************************************************)
\* Lines 2552-2676: the parse of the section under a table header line
\* (header: a line with three markers or more exists): the rows
\* tabularPattern finds in it, else those qtyDescriptionPattern finds
\* (counted), else the lines with two numbers or more (numbered).
StructuredItems(text) ==
  IF ~text.header THEN <<>>
  ELSE IF text.rows # <<>> THEN text.rows
  ELSE IF text.counted # <<>> THEN text.counted
  ELSE text.numbered

\* Lines 2679-2758: when the section gave nothing, the whole text: what
\* standardPattern finds, else what alternativePattern finds (priced), else
\* the lines with a currency amount (currency).
ParsedItems(text) ==
  IF StructuredItems(text) # <<>> THEN StructuredItems(text)
  ELSE IF text.standard # <<>> THEN text.standard
  ELSE IF text.priced # <<>> THEN text.priced
  ELSE text.currency

\* A return of the items found, whatever their number.
extractItemsFromTextAsFound(text) == ParsedItems(text)

\* Lines 2540-2764; lines 2761-2763 return the placeholder for no item.
extractItemsFromText(text) ==
  IF Len(ParsedItems(text)) > 0 THEN ParsedItems(text) ELSE <<ItemNotDetected>>

\* Lines 1984-1993: the score of the label under which the total was found;
\* 0.9 for Total, Amount Due, Balance Due and Grand Total, 0.7 for Amount.
LabelScore(label) ==
  CASE label \in {"Total", "Amount Due"} -> 90
    [] label = "Amount" -> 70

\* Lines 1857, 1924, 1953, 1973: what each header field is when no pattern
\* matches; the dates are those of the day of the run.
RegexDefaults ==
  [invoiceNumber |-> "Unknown", date |-> "today", dueDate |-> "today+30",
   vendor |-> "Unknown Vendor", customer |-> "Unknown Customer"]

\* Lines 1980-2010: the total and the confidence it is given.
ExtractedTotal(text) ==
  IF text.label # "none" /\ text.amount > 0
  THEN [total |-> text.amount, confidence |-> LabelScore(text.label)]
  ELSE [total |-> text.largest, confidence |-> 50]

\* Lines 1871-1879: the date a pattern captured, or the day of the run.
InvoiceDate(text) == IF text.date = "none" THEN "today" ELSE text.date

\* Line 1911: new Date(date) is a valid date for month/day/year and for the
\* ISO date of the day of the run, and Invalid Date for day/month/year with
\* a day above 12.
ParsesAsDate(date) == date \in {"today", "03/15/2024"}

\* Lines 1913-1914: setDate(getDate() + netDays), then the ISO date.
AddDays(date, days) ==
  CASE date = "03/15/2024" /\ days = 15 -> "2024-03-30"
    [] date = "03/15/2024" /\ days = 30 -> "2024-04-14"
    [] date = "today" /\ days = 15 -> "today+15"
    [] date = "today" /\ days = 30 -> "today+30"

\* Lines 1882-1924: an explicit due date, else the invoice date plus the
\* net days where it parses, else 30 days from Date.now().
DueDate(text) ==
  IF text.due # "none" THEN text.due
  ELSE IF text.net > 0 /\ ParsesAsDate(InvoiceDate(text))
       THEN AddDays(InvoiceDate(text), text.net)
  ELSE "today+30"

\* A post-pass that weighs the discrepancy only, not the confidences.
AdjustedTotalByRatioOnly(items, found) ==
  LET itemsTotal == SumAmounts(items).n
      off == Abs(itemsTotal - found.total)
  IN IF Len(items) > 0 /\ off > TotalTolerance /\ found.total > 0 /\ 5 * off < found.total
     THEN itemsTotal
     ELSE found.total

\* Lines 2013-2022: the total after the comparison with the items' sum;
\* confidence.items is 0.8 for one item or more (line 1977).
AdjustedTotal(items, found) ==
  LET itemsConfidence == IF Len(items) > 0 THEN 80 ELSE 0
      itemsTotal == SumAmounts(items).n
      off == Abs(itemsTotal - found.total)
  IN IF /\ Len(items) > 0
        /\ off > TotalTolerance
        /\ \/ found.total > 0 /\ 5 * off < found.total
           \/ itemsConfidence > found.confidence
     THEN itemsTotal
     ELSE found.total

extractInvoiceDataWithRegex(text) ==
  LET items == extractItemsFromText(text)
      total == AdjustedTotal(items, ExtractedTotal(text))
  IN Record([f \in StringFields |->
               IF f = "date" THEN InvoiceDate(text)
               ELSE IF f = "dueDate" THEN DueDate(text)
               ELSE IF f \in text.unresolved THEN RegexDefaults[f]
               ELSE HeaderOf("regex")[f]],
            items, Num(text.subtotal), Num(text.tax), Num(total), <<>>)

(***************************************************************************)
(* Orchestrator: extractInvoiceData (later variant lines 2055-2210,        *)
(* earlier variant lines 680-832).  One action per await of the function,  *)
(* each running the code up to the next await or the return.               *)
(***************************************************************************)
isPDF == fileSignature = "pdf"
isJPEG == fileSignature = "jpeg"
isPNG == fileSignature = "png"

\* typeof window !== 'undefined': the route runs on the server.
WindowDefined == FALSE

\* processWithGeminiVision / processExtractedText return
\* validateInvoiceData(parsed reply); each variant calls its own reconciler.
Validated(d) ==
  IF variant = "earlier" THEN validateInvoiceDataV1(d) ELSE validateInvoiceData(d)

Merged(rs) ==
  IF variant = "earlier" THEN mergeExtractionResultsV1(rs) ELSE mergeExtractionResults(rs)

\* data.items && data.items.length > 0 && data.total > 0
HasItemsAndTotal(d) ==
  "items" \in DOMAIN d /\ Len(d.items) > 0 /\ IsNum(d.total) /\ d.total.n > 0

\* A basic structure that holds no line item.
DefaultRecordWithoutItems ==
  Record([DefaultHeader EXCEPT !.date = "today", !.dueDate = "today+30"],
         <<>>, Num(0), Num(0), Num(0), <<>>)

\* Lines 2195-2205: the record returned when no strategy produced a result.
DefaultRecord ==
  Record([DefaultHeader EXCEPT !.date = "today", !.dueDate = "today+30"],
         <<UnableToExtract>>, Num(0), Num(0), Num(0), <<>>)

\* Lines 2187-2205: what the function returns for the results it holds.
ReturnValue(rs) ==
  IF Len(rs) > 1 THEN Merged(rs)
  ELSE IF Len(rs) = 1 THEN rs[1].data
  ELSE DefaultRecord

\* The results array after the return: mergeExtractionResults sorts it.
AfterReturn(rs) == IF Len(rs) > 1 THEN SortByConfidence(rs) ELSE rs

\* Lines 2172-2185 and 2187-2192: the regex strategy over the text, then
\* the return; rs and calls are the results and the calls made before it.
RegexThenReturn(rs, calls, text) ==
  \E all \in {Append(rs, Result("regex", extractInvoiceDataWithRegex(text)))} :
    /\ attempted' = Append(calls, "regex")
    /\ extractionResults' = AfterReturn(all)
    /\ returned' = <<ReturnValue(all)>>
    /\ pc' = "done"

\* Lines 2091-2151: the text in extractedText after the PDF branch, given
\* what pdf.js read.  The later variant skips pdf.js when the vision result
\* has items and a positive total and when there is no window; the earlier
\* one (lines 722-770) always runs it on a PDF.
TextRead(read) ==
  LET visionGood == /\ Len(extractionResults) > 0
                    /\ extractionResults[1].method = "gemini"
                    /\ HasItemsAndTotal(extractionResults[1].data)
      runsPdfJs == isPDF /\ (variant = "earlier" \/ (~visionGood /\ WindowDefined))
  IN IF runsPdfJs /\ read.long THEN read ELSE EmptyText

\* Line 2154 reads extractionResults[0].data.items.length when the file is
\* an image or the text is short and there is a result: a TypeError if that
\* result's data has no items array, which the outer catch (lines 2206-2209)
\* turns into the error 'Failed to extract invoice data'.
ItemsLengthThrows(text) ==
  /\ isJPEG \/ isPNG \/ ~text.long
  /\ Len(extractionResults) > 0
  /\ "items" \notin DOMAIN extractionResults[1].data

\* Lines 2153-2157: the text the function goes on with.
TextToProcess(text) ==
  LET reset == /\ isJPEG \/ isPNG \/ ~text.long
               /\ \/ Len(extractionResults) = 0
                  \/ Len(extractionResults[1].data.items) = 0
  IN IF reset THEN EmptyText ELSE text

(***************************************************************************)
(* Inputs of a run: the file, the environment, and what the providers      *)
(* answer.                                                                 *)
(***************************************************************************)
Variants == {"earlier", "later"}

FileSignatures == {"pdf", "jpeg", "png", "other"}

\* A row whose printed amount is not quantity x unit price (3 x 10.00
\* printed as 25.00, as on a discounted line).
DiscountedRow ==
  [description |-> "Consulting", quantity |-> Num(300), unitPrice |-> Num(1000),
   amount |-> Num(2500)]

TableRows ==
  {<<>>, <<DiscountedRow>>} \cup {GenuineItems("regex", n) : n \in 1..MaxItems}

\* How the total is printed: not at all, after "Total", or after "Amount".
TotalLines ==
  {[label |-> "none", amount |-> 0, largest |-> 0],
   [label |-> "none", amount |-> 0, largest |-> 3080],
   [label |-> "Total", amount |-> 3080, largest |-> 0],
   [label |-> "Amount", amount |-> 2500, largest |-> 0]}

\* The texts of more than 100 characters a PDF may hold, and one that is
\* shorter.
PdfTexts ==
  {[long |-> TRUE, header |-> rows # <<>>, rows |-> rows, counted |-> <<>>,
    numbered |-> <<>>, standard |-> <<>>, priced |-> <<>>, currency |-> <<>>,
    date |-> IF "date" \in u THEN "none" ELSE HeaderOf("regex").date,
    due |-> IF "dueDate" \in u THEN "none" ELSE HeaderOf("regex").dueDate,
    net |-> 0, subtotal |-> 0, tax |-> tax,
    label |-> t.label, amount |-> t.amount, largest |-> t.largest, unresolved |-> u] :
     rows \in TableRows, tax \in {0, 80}, t \in TotalLines, u \in CoarseProfiles}
  \cup {EmptyText}

\* An item a model reports with an amount that is not quantity x unit price.
MisreadItem ==
  [description |-> "Widget", quantity |-> Num(300), unitPrice |-> Num(1000),
   amount |-> Num(2500)]

\* A reply that is valid JSON but has no items array.
WithoutItems(d) == [f \in DOMAIN d \ {"items"} |-> d[f]]

\* The records a model's reply parses to.
Replies(method) ==
  StrategyData(method, CoarseProfiles, CoarseNumericOptions(method))
  \cup {Record(HeaderOf(method), <<MisreadItem>>, Num(3000), Num(80), Num(3080), <<>>)}
  \cup {WithoutItems(Record(HeaderOf(method), <<>>, Num(3000), Num(80), Num(3080), <<>>))}

ExtractInit ==
  /\ variant \in Variants
  /\ fileSignature \in FileSignatures
  /\ GEMINI_API_KEY \in BOOLEAN
  /\ OPENAI_API_KEY \in BOOLEAN
  /\ pdfText \in IF fileSignature = "pdf" THEN PdfTexts ELSE {EmptyText}
  /\ extractionResults = <<>>
  /\ extractedText = EmptyText
  /\ attempted = <<>>
  /\ failed = {}
  /\ pc = "gemini"
  /\ returned = <<>>
  /\ ReconcileIdle
  /\ MergeIdle
  /\ ValidateIdle
  /\ ParseIdle
  /\ UploadIdle
  /\ ProcessIdle
  /\ CheckIdle
  /\ RegexIdle

\* Line 2067: no GEMINI_API_KEY, the vision strategy is not called.
SkipVision ==
  /\ pc = "gemini"
  /\ ~GEMINI_API_KEY
  /\ pc' = "pdf"
  /\ UNCHANGED <<variant, fileSignature, GEMINI_API_KEY, OPENAI_API_KEY, pdfText,
                 extractionResults, extractedText, attempted, failed, returned>>
  /\ UNCHANGED <<reconVars, mergeVars, parseVars, validateVars, uploadVars, regexVars, checkVars, processVars>>

\* A vision failure that is not caught at line 2085 and reaches the outer
\* catch.
VisionFailsUncaught ==
  /\ pc = "gemini"
  /\ GEMINI_API_KEY
  /\ attempted' = Append(attempted, "gemini")
  /\ failed' = failed \cup {"gemini"}
  /\ pc' = "thrown"
  /\ UNCHANGED <<variant, fileSignature, GEMINI_API_KEY, OPENAI_API_KEY, pdfText,
                 extractionResults, extractedText, returned>>
  /\ UNCHANGED <<reconVars, mergeVars, parseVars, validateVars, uploadVars, regexVars, checkVars, processVars>>

\* Lines 2068-2088 when processWithGeminiVision throws (request failed, no
\* JSON in the reply, JSON.parse failed): caught, no result.
VisionFails ==
  /\ pc = "gemini"
  /\ GEMINI_API_KEY
  /\ attempted' = Append(attempted, "gemini")
  /\ failed' = failed \cup {"gemini"}
  /\ pc' = "pdf"
  /\ UNCHANGED <<variant, fileSignature, GEMINI_API_KEY, OPENAI_API_KEY, pdfText,
                 extractionResults, extractedText, returned>>
  /\ UNCHANGED <<reconVars, mergeVars, parseVars, validateVars, uploadVars, regexVars, checkVars, processVars>>

\* Lines 2068-2084 when processWithGeminiVision returns: the result is
\* pushed, and returned at once for an image with items and a positive total.
VisionReplies ==
  /\ pc = "gemini"
  /\ GEMINI_API_KEY
  /\ \E reply \in Replies("gemini") :
       \E geminiData \in {Validated(reply)} :
          /\ extractionResults' = <<Result("gemini", geminiData)>>
          /\ IF (isJPEG \/ isPNG) /\ HasItemsAndTotal(geminiData)
             THEN returned' = <<geminiData>> /\ pc' = "done"
             ELSE returned' = returned /\ pc' = "pdf"
  /\ attempted' = Append(attempted, "gemini")
  /\ UNCHANGED <<variant, fileSignature, GEMINI_API_KEY, OPENAI_API_KEY, pdfText,
                 extractedText, failed>>
  /\ UNCHANGED <<reconVars, mergeVars, parseVars, validateVars, uploadVars, regexVars, checkVars, processVars>>

\* Lines 2091-2192 once the vision step is over: the text is read (pdf.js
\* may fail and yield ''); with enough text the text model is called if its
\* key is set, otherwise the regex strategy runs and the function returns;
\* without, the function returns what it has.
ReadText ==
  /\ pc = "pdf"
  /\ \E read \in {pdfText, EmptyText} :
       IF ItemsLengthThrows(TextRead(read))
       THEN /\ extractedText' = TextRead(read)
            /\ pc' = "thrown"
            /\ UNCHANGED <<extractionResults, attempted, returned>>
       ELSE
       \E text \in {TextToProcess(TextRead(read))} :
          /\ extractedText' = text
          /\ IF ~text.long
             THEN /\ extractionResults' = AfterReturn(extractionResults)
                  /\ returned' = <<ReturnValue(extractionResults)>>
                  /\ pc' = "done"
                  /\ UNCHANGED attempted
             ELSE IF OPENAI_API_KEY
             THEN /\ attempted' = Append(attempted, "openai")
                  /\ pc' = "openai"
                  /\ UNCHANGED <<extractionResults, returned>>
             ELSE RegexThenReturn(extractionResults, attempted, text)
  /\ UNCHANGED <<variant, fileSignature, GEMINI_API_KEY, OPENAI_API_KEY, pdfText, failed>>
  /\ UNCHANGED <<reconVars, mergeVars, parseVars, validateVars, uploadVars, regexVars, checkVars, processVars>>

\* Lines 2161-2192 when processExtractedText returns the reconciled reply.
TextModelReplies ==
  /\ pc = "openai"
  /\ \E reply \in Replies("openai") :
       RegexThenReturn(Append(extractionResults, Result("openai", Validated(reply))),
                       attempted, extractedText)
  /\ UNCHANGED <<variant, fileSignature, GEMINI_API_KEY, OPENAI_API_KEY, pdfText,
                 extractedText, failed>>
  /\ UNCHANGED <<reconVars, mergeVars, parseVars, validateVars, uploadVars, regexVars, checkVars, processVars>>

\* Lines 2161-2192 when the request fails or the reply is not JSON:
\* processExtractedText returns extractInvoiceDataWithRegex(extractedText)
\* (lines 2450-2457), which is pushed as the 'openai' result.
TextModelFails ==
  /\ pc = "openai"
  /\ RegexThenReturn(Append(extractionResults,
                            Result("openai", extractInvoiceDataWithRegex(extractedText))),
                     attempted, extractedText)
  /\ failed' = failed \cup {"openai"}
  /\ UNCHANGED <<variant, fileSignature, GEMINI_API_KEY, OPENAI_API_KEY, pdfText,
                 extractedText>>
  /\ UNCHANGED <<reconVars, mergeVars, parseVars, validateVars, uploadVars, regexVars, checkVars, processVars>>

ExtractNext ==
  \/ SkipVision
  \/ VisionFails
  \/ VisionReplies
  \/ ReadText
  \/ TextModelReplies
  \/ TextModelFails

SpecExtract == ExtractInit /\ [][ExtractNext]_vars

(***************************************************************************)
(* Inputs of the regex strategy: texts with the rows of a table or none,   *)
(* a total printed under a label or only as an amount, with or without a   *)
(* date, a due date and payment terms.                                     *)
(***************************************************************************)
RegexRows ==
  {<<>>, <<DiscountedRow>>, GenuineItems("regex", 1), GenuineItems("regex", MaxItems)}

\* Totals beside those of TotalLines: one within 1 of a row's amount, one
\* within a fifth of it, one far from it, under labels of either score.
RegexTotalLines ==
  TotalLines \cup
  {[label |-> "Total", amount |-> 3050, largest |-> 0],
   [label |-> "Total", amount |-> 3500, largest |-> 0],
   [label |-> "Total", amount |-> 20000, largest |-> 0],
   [label |-> "Amount Due", amount |-> 20000, largest |-> 0],
   [label |-> "Amount", amount |-> 20000, largest |-> 0]}

RegexTexts ==
  {[long |-> TRUE, header |-> rows # <<>>, rows |-> rows, counted |-> <<>>,
    numbered |-> <<>>, standard |-> <<>>, priced |-> <<>>, currency |-> <<>>,
    date |-> date, due |-> due, net |-> net, subtotal |-> 0, tax |-> 0,
    label |-> t.label, amount |-> t.amount, largest |-> t.largest, unresolved |-> {}] :
     rows \in RegexRows, t \in RegexTotalLines,
     date \in {"none", "03/15/2024", "15/03/2024"}, due \in {"none", "04/20/2024"},
     net \in {0, 15}}

RegexInit ==
  /\ regexText \in RegexTexts
  /\ regexData = <<>>
  /\ ReconcileIdle
  /\ MergeIdle
  /\ ExtractIdle
  /\ ParseIdle
  /\ ValidateIdle
  /\ UploadIdle
  /\ ProcessIdle
  /\ CheckIdle

\* const regexData = extractInvoiceDataWithRegex(extractedText)
ExtractWithRegex ==
  /\ regexData = <<>>
  /\ regexData' = <<extractInvoiceDataWithRegex(regexText)>>
  /\ UNCHANGED <<regexText, reconVars, mergeVars, extractVars, parseVars, validateVars,
                 uploadVars, checkVars, processVars>>

RegexNext == ExtractWithRegex

SpecRegex == RegexInit /\ [][RegexNext]_vars

(***************************************************************************)
(* Inputs of the item parser: texts with or without a table header line,   *)
(* in which each pattern finds no item, one or several.  A text without    *)
(* header line has no section for the first three patterns to read.        *)
(***************************************************************************)
FoundOptions == {<<>>, <<DiscountedRow>>, GenuineItems("regex", MaxItems)}

ItemTexts ==
  {[long |-> TRUE, header |-> TRUE, rows |-> a, counted |-> b, numbered |-> c,
    standard |-> e, priced |-> f, currency |-> g, date |-> "none", due |-> "none",
    net |-> 0, subtotal |-> 0, tax |-> 0,
    label |-> "none", amount |-> 0, largest |-> 0, unresolved |-> {}] :
     a \in FoundOptions, b \in FoundOptions, c \in FoundOptions,
     e \in FoundOptions, f \in FoundOptions, g \in FoundOptions}
  \cup
  {[long |-> TRUE, header |-> FALSE, rows |-> <<>>, counted |-> <<>>, numbered |-> <<>>,
    standard |-> e, priced |-> f, currency |-> g, date |-> "none", due |-> "none",
    net |-> 0, subtotal |-> 0, tax |-> 0,
    label |-> "none", amount |-> 0, largest |-> 0, unresolved |-> {}] :
     e \in FoundOptions, f \in FoundOptions, g \in FoundOptions}

ItemsInit ==
  /\ itemText \in ItemTexts
  /\ foundItems = <<>>
  /\ ReconcileIdle
  /\ MergeIdle
  /\ ExtractIdle
  /\ ValidateIdle
  /\ UploadIdle
  /\ ProcessIdle
  /\ CheckIdle
  /\ RegexIdle

\* const items = extractItemsFromText(text)
ExtractItems ==
  /\ foundItems = <<>>
  /\ foundItems' = <<extractItemsFromText(itemText)>>
  /\ UNCHANGED <<itemText, reconVars, mergeVars, extractVars, validateVars, uploadVars, regexVars, checkVars, processVars>>

ItemsNext == ExtractItems

SpecItems == ItemsInit /\ [][ItemsNext]_vars

(***************************************************************************)
(* Invoice validator: validateIsInvoice (lines 2866-2983).  The text       *)
(* fields it reads are strings of the model; WordsOf gives the words each  *)
(* is written with and Lower their lower-case form, so that a keyword is   *)
(* looked for word by word in the joined text, as the regular expressions  *)
(* and includes() calls of the code do; no word of the model holds a       *)
(* keyword as a proper part of it.                                         *)
(***************************************************************************)
\* The words of a string of the model, split at white space.
WordsOf(s) ==
  CASE s = "" -> <<>>
    [] s = "Acme Corp" -> <<"Acme", "Corp">>
    [] s = "Acme Corporation" -> <<"Acme", "Corporation">>
    [] s = "Beta LLC" -> <<"Beta", "LLC">>
    [] s = "BETA LLC" -> <<"BETA", "LLC">>
    [] s = "Unknown Vendor" -> <<"Unknown", "Vendor">>
    [] s = "Unknown Customer" -> <<"Unknown", "Customer">>
    [] s = "Widget A" -> <<"Widget", "A">>
    [] s = "Widget  2" -> <<"Widget", "2">>
    [] s = "Item not detected" -> <<"Item", "not", "detected">>
    [] s = "Unable to extract items" -> <<"Unable", "to", "extract", "items">>
    [] s = "First Bank" -> <<"First", "Bank">>
    [] s = "Lakeside Community Clinic" -> <<"Lakeside", "Community", "Clinic">>
    [] s = "Account Statement" -> <<"Account", "Statement">>
    [] s = "Opening Balance" -> <<"Opening", "Balance">>
    [] s = "Closing Balance" -> <<"Closing", "Balance">>
    [] s = "late payment fee" -> <<"late", "payment", "fee">>
    [] s = "balance forward" -> <<"balance", "forward">>
    [] s = "transaction fee" -> <<"transaction", "fee">>
    [] s = "Store Receipt" -> <<"Store", "Receipt">>
    [] s = "Order total" -> <<"Order", "total">>
    [] OTHER -> <<s>>

\* toLowerCase / the i flag, on the words of the model written with capitals.
Lower(w) ==
  CASE w = "Account" -> "account" [] w = "Statement" -> "statement"
    [] w = "Opening" -> "opening" [] w = "Closing" -> "closing"
    [] w = "Balance" -> "balance" [] w = "Store" -> "store"
    [] w = "Receipt" -> "receipt" [] w = "Community" -> "community"
    [] w = "Bank" -> "bank" [] w = "First" -> "first"
    [] w = "Lakeside" -> "lakeside" [] w = "Clinic" -> "clinic"
    [] w = "Order" -> "order" [] w = "Unknown" -> "unknown"
    [] w = "Vendor" -> "vendor" [] w = "Customer" -> "customer"
    [] w = "Acme" -> "acme" [] w = "Corp" -> "corp" [] w = "ACME" -> "acme"
    [] w = "Corporation" -> "corporation" [] w = "Beta" -> "beta"
    [] w = "BETA" -> "beta" [] w = "LLC" -> "llc" [] w = "Widget" -> "widget"
    [] w = "A" -> "a" [] w = "Item" -> "item" [] w = "Unable" -> "unable"
    [] w = "Consulting" -> "consulting"
    [] w = "INV-2024-001" -> "inv-2024-001" [] w = "INV2024001" -> "inv2024001"
    [] OTHER -> w

LowerAll(words) == [i \in 1..Len(words) |-> Lower(words[i])]

\* The phrase occurs in the words, as consecutive words.
ContainsPhrase(words, phrase) ==
  \E i \in 1..(Len(words) - Len(phrase) + 1) :
    \A j \in 1..Len(phrase) : words[i + j - 1] = phrase[j]

\* Lines 2891-2914: statementKeywords, each as the words it is made of.
statementKeywords ==
  {<<"bank", "statement">>, <<"account", "statement">>, <<"credit", "card">>,
   <<"statement", "of", "account">>, <<"monthly", "statement">>,
   <<"quarterly", "statement">>, <<"account", "summary">>, <<"balance", "summary">>,
   <<"transaction", "history">>, <<"account", "activity">>, <<"opening", "balance">>,
   <<"closing", "balance">>, <<"condominium", "association">>,
   <<"homeowners", "association">>, <<"hoa">>, <<"assessment">>,
   <<"maintenance", "fee">>, <<"regular", "assessment">>, <<"special", "assessment">>,
   <<"association", "fee">>, <<"monthly", "fee">>, <<"reserve", "fund">>}

\* Lines 2917-2930: receiptKeywords; the last one, card <word> <4 digits>,
\* matches no text of the model.
receiptKeywords ==
  {<<"receipt">>, <<"thank", "you", "for", "your", "purchase">>,
   <<"thank", "you", "for", "shopping">>, <<"cash", "receipt">>,
   <<"payment", "receipt">>, <<"store", "receipt">>, <<"return", "policy">>,
   <<"cashier:">>, <<"terminal:">>, <<"register:">>, <<"transaction", "id">>}

\* Line 2958: /condominium|association|community|homeowner/i
condoKeywords == {<<"condominium">>, <<"association">>, <<"community">>, <<"homeowner">>}

\* keywords.some(keyword => keyword.test(text)), text given by its words
MatchesAny(keywords, words) ==
  \E k \in keywords : ContainsPhrase(LowerAll(words), k)

RECURSIVE JoinWords(_)
JoinWords(strings) ==
  IF strings = <<>> THEN <<>> ELSE WordsOf(Head(strings)) \o JoinWords(Tail(strings))

\* extractedData.items || []
ItemsOf(d) == IF "items" \in DOMAIN d THEN d.items ELSE <<>>

\* Lines 2933-2938: allTextFields, as words.
allTextFields(d) ==
  JoinWords(<<d.vendor, d.customer, d.invoiceNumber>>
            \o [i \in 1..Len(ItemsOf(d)) |-> ItemsOf(d)[i].description])

\* value > limit on a field of the record (false for undefined and NaN)
GreaterThan(v, limit) == IsNum(ToNumber(v)) /\ ToNumber(v).n > limit

\* value < limit
LessThan(v, limit) == IsNum(ToNumber(v)) /\ ToNumber(v).n < limit

\* Line 2968: the 1000 of hasNumericInconsistency, in hundredths.
InconsistencyLimit == 100000

\* Line 2969: the 100 under which a total is inconsistent with a subtotal
\* over 1000, in hundredths.
SmallTotalLimit == 10000

hasInvoiceNumber(d) == d.invoiceNumber # "" /\ d.invoiceNumber # "Unknown"

hasLineItems(d) ==
  /\ Len(ItemsOf(d)) > 0
  /\ ~ContainsPhrase(WordsOf(d.items[1].description), <<"Unable", "to", "extract">>)
  /\ ~ContainsPhrase(WordsOf(d.items[1].description), <<"not", "detected">>)

\* A total check that accepts any number, zero included.
hasTotalAnyNumber(d) == d.total.k = "num"

hasTotal(d) == d.total.k = "num" /\ d.total.n > 0

hasVendorInfo(d) == d.vendor # "" /\ d.vendor # "Unknown Vendor"

\* Lines 2946-2949: && binds tighter than ||, so the second alternative
\* does not depend on hasInvoiceNumber.
hasStatementStructure(d) ==
  \/ /\ ~hasInvoiceNumber(d)
     /\ ContainsPhrase(allTextFields(d), <<"balance">>)
     /\ ContainsPhrase(allTextFields(d), <<"transaction">>)
  \/ /\ ContainsPhrase(allTextFields(d), <<"payment">>)
     /\ ContainsPhrase(allTextFields(d), <<"balance">>)

hasReceiptStructure(d) ==
  /\ ~hasInvoiceNumber(d)
  /\ ContainsPhrase(LowerAll(allTextFields(d)), <<"total">>)
  /\ ~ContainsPhrase(LowerAll(allTextFields(d)), <<"invoice">>)

isCondoStatement(d) ==
  /\ MatchesAny(condoKeywords, allTextFields(d))
  /\ ~hasLineItems(d) \/ Len(ItemsOf(d)) < 2

isEmptyInvoice(d) ==
  /\ ~hasLineItems(d) \/ Len(ItemsOf(d)) = 0
  /\ GreaterThan(d.subtotal, 0) \/ GreaterThan(d.total, 0)

hasNumericInconsistency(d) ==
  \/ DiffersByMoreThan(d.subtotal, d.total, InconsistencyLimit)
  \/ GreaterThan(d.subtotal, InconsistencyLimit) /\ LessThan(d.total, SmallTotalLimit)

\* Rejection rules that leave the two keyword lists out.
RejectedByStructureOnly(d) ==
  \/ hasStatementStructure(d)
  \/ hasReceiptStructure(d)
  \/ isCondoStatement(d)
  \/ isEmptyInvoice(d)
  \/ hasNumericInconsistency(d)

\* Lines 2972-2978: the rejection rules.
Rejected(d) ==
  \/ MatchesAny(statementKeywords, allTextFields(d))
  \/ MatchesAny(receiptKeywords, allTextFields(d))
  \/ hasStatementStructure(d)
  \/ hasReceiptStructure(d)
  \/ isCondoStatement(d)
  \/ isEmptyInvoice(d)
  \/ hasNumericInconsistency(d)

validateIsInvoice(d) ==
  /\ ~Rejected(d)
  /\ hasInvoiceNumber(d) /\ hasLineItems(d) /\ hasTotal(d) /\ hasVendorInfo(d)

(***************************************************************************)
(* Inputs of the validator: records as the extraction returns them, with   *)
(* resolved or default header fields, genuine, placeholder or statement-   *)
(* like items, and numeric, string or absent amounts.                      *)
(***************************************************************************)
InvoiceNumbers == {"INV-2024-001", "Unknown", ""}

Vendors == {"Acme Corp", "Unknown Vendor", "", "First Bank", "Lakeside Community Clinic"}

Customers == {"Beta LLC", "Account Statement"}

Descriptions ==
  {"Widget", "Item not detected", "Unable to extract items", "Opening Balance",
   "Closing Balance", "late payment fee", "balance forward", "transaction fee", "Store Receipt"}

ItemDescribed(description) ==
  [description |-> description, quantity |-> Num(100), unitPrice |-> Num(5000),
   amount |-> Num(5000)]

DescribedItems ==
  {<<>>}
  \cup {<<ItemDescribed(a)>> : a \in Descriptions}
  \cup {<<ItemDescribed(a), ItemDescribed(b)>> : a, b \in Descriptions}

CandidateTotals == {Num(10800), Num(0), Undef, Str(<<"1", "0", "8">>)}

CandidateSubtotals == {Num(10000), Num(0), Num(250000)}

ValidateInit ==
  /\ \E number \in InvoiceNumbers, vendor \in Vendors, customer \in Customers,
        items \in DescribedItems, subtotal \in CandidateSubtotals,
        total \in CandidateTotals :
       candidate =
         Record([Header EXCEPT !.invoiceNumber = number, !.vendor = vendor,
                               !.customer = customer],
                items, subtotal, Num(800), total, <<>>)
  /\ isInvoice = <<>>
  /\ ReconcileIdle
  /\ MergeIdle
  /\ ExtractIdle
  /\ ParseIdle
  /\ UploadIdle
  /\ ProcessIdle
  /\ CheckIdle
  /\ RegexIdle

\* const isInvoice = validateIsInvoice(extractedData)
ValidateIsInvoice ==
  /\ isInvoice = <<>>
  /\ isInvoice' = <<validateIsInvoice(candidate)>>
  /\ UNCHANGED <<candidate, reconVars, mergeVars, extractVars, parseVars, uploadVars, regexVars, checkVars, processVars>>

ValidateNext == ValidateIsInvoice

SpecValidate == ValidateInit /\ [][ValidateNext]_vars

(***************************************************************************)
(* Upload handler: POST (lines 1504-1825), for the requests in flight at   *)
(* once, with the duplicate check it calls (check-duplicate route, POST    *)
(* lines 14-80) and the tables invoice and lineItem.  One action per await *)
(* that can change or read shared state or end the request; auth(),        *)
(* formData() and arrayBuffer() touch nothing shared and are part of the   *)
(* action they precede.                                                    *)
(***************************************************************************)
\* What a request carries: whether it passes the checks of lines 1505-1531,
\* the form field type, the type of the file, what
\* preliminaryDocumentTypeCheck answers for the file (false for some PDFs,
\* true for any other file, line 3128), and whether the fetch of the
\* duplicate check fails for the request.
Uploads ==
  {[request |-> "ok", documentType |-> t, fileType |-> f, isLikelyInvoice |-> TRUE,
    duplicateError |-> FALSE] :
     t \in {"invoice", "other"}, f \in {"application/pdf", "image/png"}}
  \cup {[request |-> "ok", documentType |-> "invoice", fileType |-> "application/pdf",
         isLikelyInvoice |-> TRUE, duplicateError |-> TRUE],
        [request |-> "ok", documentType |-> "invoice", fileType |-> "application/pdf",
         isLikelyInvoice |-> FALSE, duplicateError |-> FALSE]}
  \cup {[request |-> k, documentType |-> "invoice", fileType |-> "application/pdf",
         isLikelyInvoice |-> TRUE, duplicateError |-> FALSE] :
          k \in {"unauthorized", "noBody", "noFile", "invalidFile"}}

\* NextResponse.json(body, {status}) with the fields of body the callers read.
JsonResponse(status, error, flags, message, invoiceId) ==
  [status |-> status, error |-> error, isStatement |-> "isStatement" \in flags,
   isDuplicate |-> "isDuplicate" \in flags, isInvoice |-> "isInvoice" \in flags,
   message |-> message, invoiceId |-> invoiceId]

\* Lines 1507-1531: the responses to a request that is not processed.
Refusal(kind) ==
  CASE kind = "unauthorized" -> JsonResponse(401, "Unauthorized", {}, "", "")
    [] kind = "noBody" -> JsonResponse(400, "Request body is empty", {}, "", "")
    [] kind = "noFile" -> JsonResponse(400, "No file uploaded", {}, "", "")
    [] kind = "invalidFile" ->
         JsonResponse(400, "File type should be JPEG, PNG, or PDF", {}, "", "")

\* Lines 1549-1556: the answer to a file the preliminary check turns down.
StatementResponse ==
  JsonResponse(200, "", {"isStatement"},
               "This document appears to be an account statement or receipt, not an invoice.", "")

\* Lines 1581-1588: the answer to a record validateIsInvoice turns down.
NotAnInvoiceResponse ==
  JsonResponse(200, "", {"isStatement"},
               "The uploaded document doesn't appear to be an invoice. Please upload a valid invoice document.", "")

\* Lines 1708-1720: the answer to an invoice that is already stored.
DuplicateResponse(id) ==
  JsonResponse(200, "", {"isDuplicate", "isInvoice"},
               "This invoice has already been processed.", id)

\* Lines 1781-1791: the answer to an invoice that was stored.
InvoiceResponse(id) == JsonResponse(200, "", {"isInvoice"}, "", id)

\* Lines 1792-1800: the answer of the catch around the invoice processing.
ProcessingFailed == JsonResponse(422, "Invoice processing failed", {}, "", "")

\* Lines 1803-1810: the answer to a file that is not a PDF invoice.
PlainResponse == JsonResponse(200, "", {}, "", "")

\* Line 1678: Math.round(extractedData.total * 100); amounts of the model
\* are in hundredths already.
totalAmountCents(d) == d.total.n

\* An item given away: amount 0, skipped by line 1746.
FreeItem ==
  [description |-> "Widget A", quantity |-> Num(100), unitPrice |-> Num(0), amount |-> Num(0)]

\* The records extractInvoiceData returns to the handler: two invoices, the
\* second with a free item between two charged ones, a statement, and the
\* record of a run that found nothing.
ExtractedRecords ==
  {Record(Header, <<ItemDescribed("Widget")>>, Num(5000), Num(0), Num(5000), <<"gemini">>),
   Record([Header EXCEPT !.invoiceNumber = "INV2024001"],
          <<ItemDescribed("Widget"), FreeItem, ItemDescribed("Widget A")>>,
          Num(10000), Num(0), Num(10000), <<"gemini", "regex">>),
   Record([Header EXCEPT !.invoiceNumber = "Unknown", !.customer = "Account Statement"],
          <<ItemDescribed("Opening Balance"), ItemDescribed("Closing Balance")>>,
          Num(10000), Num(0), Num(10000), <<"regex">>),
   DefaultRecord}

UploadInit ==
  /\ upload \in [Requests -> Uploads]
  /\ step = [r \in Requests |-> "idle"]
  /\ awaited = [r \in Requests |-> <<>>]
  /\ extractedData = [r \in Requests |-> <<>>]
  /\ now = [r \in Requests |-> 0]
  /\ inserted = [r \in Requests |-> 0]
  /\ response = [r \in Requests |-> <<>>]
  /\ invoiceTable = {}
  /\ lineItemTable = {}
  /\ ReconcileIdle
  /\ MergeIdle
  /\ ExtractIdle
  /\ ParseIdle
  /\ ValidateIdle
  /\ ProcessIdle
  /\ CheckIdle
  /\ RegexIdle

otherVars == <<reconVars, mergeVars, extractVars, parseVars, validateVars, regexVars, checkVars, processVars>>

\* return NextResponse.json(...)
Answer(r, body) ==
  /\ response' = [response EXCEPT ![r] = <<body>>]
  /\ step' = [step EXCEPT ![r] = "done"]
  /\ UNCHANGED awaited

\* The handler goes on to its next await.
Goto(r, await) ==
  /\ step' = [step EXCEPT ![r] = await]
  /\ awaited' = [awaited EXCEPT ![r] = Append(@, await)]
  /\ UNCHANGED response

\* Lines 1564-1576 and 1803-1810: past the preliminary check, a PDF sent as
\* an invoice is extracted and any other file is answered at once.
Proceed(r) ==
  IF upload[r].fileType = "application/pdf" /\ upload[r].documentType = "invoice"
  THEN Goto(r, "extractInvoiceData")
  ELSE Answer(r, PlainResponse)

\* Lines 1505-1537: the checks of the request, up to the preliminary check.
Receive(r) ==
  /\ step[r] = "idle"
  /\ IF upload[r].request # "ok" THEN Answer(r, Refusal(upload[r].request))
     ELSE IF upload[r].documentType = "invoice"
          THEN Goto(r, "preliminaryDocumentTypeCheck")
          ELSE Proceed(r)
  /\ UNCHANGED <<upload, extractedData, now, inserted, invoiceTable, lineItemTable, otherVars>>

\* Lines 1538-1562 when preliminaryDocumentTypeCheck returns true; it
\* catches what its calls throw (lines 3121-3131).
PreliminaryAllows(r) ==
  /\ step[r] = "preliminaryDocumentTypeCheck"
  /\ upload[r].isLikelyInvoice
  /\ Proceed(r)
  /\ UNCHANGED <<upload, extractedData, now, inserted, invoiceTable, lineItemTable, otherVars>>

\* A handler that goes on whatever the preliminary check answers.
PreliminaryRejectsIgnored(r) ==
  /\ step[r] = "preliminaryDocumentTypeCheck"
  /\ ~upload[r].isLikelyInvoice
  /\ Proceed(r)
  /\ UNCHANGED <<upload, extractedData, now, inserted, invoiceTable, lineItemTable, otherVars>>

\* Lines 1538-1557 when it returns false.
PreliminaryRejects(r) ==
  /\ step[r] = "preliminaryDocumentTypeCheck"
  /\ ~upload[r].isLikelyInvoice
  /\ Answer(r, StatementResponse)
  /\ UNCHANGED <<upload, extractedData, now, inserted, invoiceTable, lineItemTable, otherVars>>

\* Line 1598: new Date(), later than the time any request took before.
Tick == Cardinality({r \in Requests : now[r] # 0}) + 1

\* A handler that stores whatever record extractInvoiceData returns.
ExtractionReturnsUnvalidated(r) ==
  /\ step[r] = "extractInvoiceData"
  /\ \E d \in ExtractedRecords :
       /\ extractedData' = [extractedData EXCEPT ![r] = <<d>>]
       /\ now' = [now EXCEPT ![r] = Tick]
       /\ Goto(r, "check-duplicate")
  /\ UNCHANGED <<upload, inserted, invoiceTable, lineItemTable, otherVars>>

\* Lines 1575-1590: extractInvoiceData returns a record; validateIsInvoice
\* decides whether the handler goes on.
ExtractionReturns(r) ==
  /\ step[r] = "extractInvoiceData"
  /\ \E d \in ExtractedRecords :
       /\ extractedData' = [extractedData EXCEPT ![r] = <<d>>]
       /\ IF ~validateIsInvoice(d)
          THEN Answer(r, NotAnInvoiceResponse) /\ UNCHANGED now
          ELSE Goto(r, "check-duplicate") /\ now' = [now EXCEPT ![r] = Tick]
  /\ UNCHANGED <<upload, inserted, invoiceTable, lineItemTable, otherVars>>

\* Lines 1575 and 1792-1800: extractInvoiceData throws.
ExtractionThrows(r) ==
  /\ step[r] = "extractInvoiceData"
  /\ Answer(r, ProcessingFailed)
  /\ UNCHANGED <<upload, extractedData, now, inserted, invoiceTable, lineItemTable, otherVars>>

\* check-duplicate, lines 43-56: the rows with the same invoice number,
\* vendor and amount in cents.
Duplicates(d) ==
  {row \in invoiceTable :
     /\ row.invoiceNumber = d.invoiceNumber
     /\ row.vendorName = d.vendor
     /\ row.amount = totalAmountCents(d)}

\* A handler that stores the invoice whatever the duplicate check answers.
CheckDuplicateNeverBlocks(r) ==
  /\ step[r] = "check-duplicate"
  /\ ~upload[r].duplicateError
  /\ Goto(r, "insert invoice")
  /\ UNCHANGED <<upload, extractedData, now, inserted, invoiceTable, lineItemTable, otherVars>>

\* Lines 1681-1722: the duplicate check answers; limit(1) gives one of the
\* rows that match.
CheckDuplicate(r) ==
  /\ step[r] = "check-duplicate"
  /\ ~upload[r].duplicateError
  /\ IF Duplicates(extractedData[r][1]) # {}
     THEN \E row \in Duplicates(extractedData[r][1]) : Answer(r, DuplicateResponse(row.id))
     ELSE Goto(r, "insert invoice")
  /\ UNCHANGED <<upload, extractedData, now, inserted, invoiceTable, lineItemTable, otherVars>>

\* Lines 1723-1726: the fetch fails or answers an error; the handler goes on.
CheckDuplicateFails(r) ==
  /\ step[r] = "check-duplicate"
  /\ upload[r].duplicateError
  /\ Goto(r, "insert invoice")
  /\ UNCHANGED <<upload, extractedData, now, inserted, invoiceTable, lineItemTable, otherVars>>

\* Lines 1744-1747: the index of the next item after from that is not
\* skipped for an amount of 0, or 0 when there is none.
NextCharged(d, from) ==
  IF \E i \in (from + 1)..Len(ItemsOf(d)) : d.items[i].amount # Num(0)
  THEN CHOOSE i \in (from + 1)..Len(ItemsOf(d)) :
         /\ d.items[i].amount # Num(0)
         /\ \A j \in (from + 1)..(i - 1) : d.items[j].amount = Num(0)
  ELSE 0

\* Lines 1744-1791: after an insert, the next insert of a line item or the
\* answer.
AfterInsert(r, from) ==
  IF NextCharged(extractedData[r][1], from) = 0
  THEN Answer(r, InvoiceResponse(r))
  ELSE Goto(r, "insert lineItem")

\* Lines 1729-1741: the invoice row, under an id of its own.
InsertInvoice(r) ==
  /\ step[r] = "insert invoice"
  /\ invoiceTable' = invoiceTable \cup
       {[id |-> r, customerName |-> extractedData[r][1].customer,
         vendorName |-> extractedData[r][1].vendor,
         invoiceNumber |-> extractedData[r][1].invoiceNumber,
         amount |-> totalAmountCents(extractedData[r][1]),
         createdAt |-> now[r]]}
  /\ AfterInsert(r, 0)
  /\ UNCHANGED <<upload, extractedData, now, inserted, lineItemTable, otherVars>>

\* Lines 1729 and 1792-1800: the insert of the invoice row throws.
InsertInvoiceFails(r) ==
  /\ step[r] = "insert invoice"
  /\ Answer(r, ProcessingFailed)
  /\ UNCHANGED <<upload, extractedData, now, inserted, invoiceTable, lineItemTable, otherVars>>

\* Lines 1744-1761: the row of the next item that is charged.
InsertLineItem(r) ==
  /\ step[r] = "insert lineItem"
  /\ \E i \in {NextCharged(extractedData[r][1], inserted[r])} :
       /\ lineItemTable' = lineItemTable \cup
            {[id |-> <<r, i>>, invoiceId |-> r,
              description |-> extractedData[r][1].items[i].description,
              quantity |-> extractedData[r][1].items[i].quantity,
              unitPrice |-> extractedData[r][1].items[i].unitPrice,
              amount |-> extractedData[r][1].items[i].amount]}
       /\ inserted' = [inserted EXCEPT ![r] = i]
       /\ AfterInsert(r, i)
  /\ UNCHANGED <<upload, extractedData, now, invoiceTable, otherVars>>

\* Lines 1751 and 1792-1800: the insert of a line item throws; the rows
\* written before it stay.
InsertLineItemFails(r) ==
  /\ step[r] = "insert lineItem"
  /\ Answer(r, ProcessingFailed)
  /\ UNCHANGED <<upload, extractedData, now, inserted, invoiceTable, lineItemTable, otherVars>>

UploadNext ==
  \E r \in Requests :
    \/ Receive(r)
    \/ PreliminaryAllows(r)
    \/ PreliminaryRejects(r)
    \/ ExtractionReturns(r)
    \/ ExtractionThrows(r)
    \/ CheckDuplicate(r)
    \/ CheckDuplicateFails(r)
    \/ InsertInvoice(r)
    \/ InsertInvoiceFails(r)
    \/ InsertLineItem(r)
    \/ InsertLineItemFails(r)

SpecUpload == UploadInit /\ [][UploadNext]_vars

(***************************************************************************)
(* Preliminary check: preliminaryDocumentTypeCheck (lines 2986-3133).  Its *)
(* one call out is processWithGeminiVision, which returns the reply after  *)
(* validateInvoiceData or throws (request failed, no JSON block, JSON that *)
(* does not parse; lines 2300-2316).                                       *)
(***************************************************************************)
\* Lines 3014-3035: statementKeywords of the check, each as its words.
checkStatementKeywords ==
  {<<"statement">>, <<"account">>, <<"bank">>, <<"credit", "card">>, <<"balance">>,
   <<"transaction">>, <<"withdrawal">>, <<"deposit">>, <<"available", "credit">>,
   <<"interest", "charged">>, <<"minimum", "payment">>, <<"condominium">>,
   <<"association">>, <<"homeowner">>, <<"community">>, <<"hoa">>, <<"assessment">>,
   <<"maintenance", "fee">>, <<"monthly", "fee">>, <<"reserve", "fund">>}

\* Lines 3038-3048: receiptKeywords of the check; card <word> <4 digits>
\* and store # match no text of the model.
checkReceiptKeywords ==
  {<<"receipt">>, <<"thank", "you">>, <<"purchase">>, <<"return", "policy">>,
   <<"cashier">>, <<"terminal">>, <<"transaction", "id">>}

\* Line 3107: the 500 under which subtotal and total are close, in hundredths.
CloseTotalsLimit == 50000

\* !value for an amount: 0, NaN, '' and undefined.
Falsy(v) == v.k \in {"undef", "nan"} \/ v = Num(0) \/ (v.k = "str" /\ v.s = <<>>)

\* Lines 3002-3112: the verdict on the data the vision call returned.
VisionVerdict(d) ==
  LET items == ItemsOf(d)
      words == allTextFields(d)
      hasStatementKeywords == MatchesAny(checkStatementKeywords, words)
      hasReceiptKeywords == MatchesAny(checkReceiptKeywords, words)
      unnumbered == d.invoiceNumber \in {"", "Unknown"}
      structure == /\ unnumbered
                   /\ \/ Len(items) = 0
                      \/ ContainsPhrase(WordsOf(items[1].description),
                                        <<"Unable", "to", "extract">>)
                   /\ Falsy(d.total)
      condo == MatchesAny(condoKeywords, words) /\ Len(items) < 2
  IN IF Len(items) = 0 /\ (GreaterThan(d.subtotal, 0) \/ GreaterThan(d.total, 0))
     THEN FALSE
     ELSE IF \/ DiffersByMoreThan(d.subtotal, d.total, InconsistencyLimit)
             \/ GreaterThan(d.subtotal, InconsistencyLimit) /\ LessThan(d.total, SmallTotalLimit)
     THEN FALSE
     ELSE IF hasStatementKeywords \/ hasReceiptKeywords \/ structure \/ condo
     THEN FALSE
     ELSE /\ Len(items) > 0
          /\ ~ContainsPhrase(WordsOf(items[1].description), <<"Unable", "to", "extract">>)
          /\ GreaterThan(d.total, 0)
          /\ ~unnumbered
          /\ IsNum(ToNumber(d.subtotal))
          /\ IsNum(ToNumber(d.total))
          /\ Abs(ToNumber(d.subtotal).n - ToNumber(d.total).n) < CloseTotalsLimit

\* Lines 2986-3133; file.reply is <<>> when processWithGeminiVision throws
\* and <<the parsed reply>> otherwise.  The catch of lines 3113-3116
\* answers false.
preliminaryDocumentTypeCheck(file) ==
  IF file.type # "application/pdf" THEN TRUE
  ELSE IF ~file.key THEN TRUE
  ELSE IF file.reply = <<>> THEN FALSE
  ELSE VisionVerdict(validateInvoiceData(file.reply[1]))

\* The replies of the vision model to the check: those of the extraction
\* and the statement of the upload handler.
CheckReplies ==
  Replies("gemini") \cup
  {d \in ExtractedRecords : d.customer = "Account Statement"}

CheckedFiles ==
  {[type |-> t, key |-> k, reply |-> r] :
     t \in {"application/pdf", "image/png"}, k \in BOOLEAN,
     r \in {<<>>} \cup {<<d>> : d \in CheckReplies}}

CheckInit ==
  /\ checkedFile \in CheckedFiles
  /\ checkResult = <<>>
  /\ ReconcileIdle
  /\ MergeIdle
  /\ ExtractIdle
  /\ ParseIdle
  /\ ValidateIdle
  /\ RegexIdle
  /\ UploadIdle
  /\ ProcessIdle

\* const isLikelyInvoice = await preliminaryDocumentTypeCheck(file)
CheckDocumentType ==
  /\ checkResult = <<>>
  /\ checkResult' = <<preliminaryDocumentTypeCheck(checkedFile)>>
  /\ UNCHANGED <<checkedFile, reconVars, mergeVars, extractVars, parseVars, validateVars,
                 regexVars, uploadVars, processVars>>

CheckNext == CheckDocumentType

SpecCheck == CheckInit /\ [][CheckNext]_vars

(***************************************************************************)
(* Retrieval by the agent: POST of the process route (lines 18-152), which *)
(* uploadInvoice.execute of src/lib/ai/tools/upload-invoice.ts calls with  *)
(* agentInitiated 'true' and the name of the uploaded file (lines 140-175).*)
(* It reads the tables the upload handler writes, so the requests of the   *)
(* upload handler run beside it; the file of upload r is named r.          *)
(***************************************************************************)
ProcessRequests ==
  {[fileReference |-> f, agentInitiated |-> a] : f \in Requests, a \in BOOLEAN}

\* Lines 65-69: orderBy(desc(invoice.createdAt)).limit(1).
MostRecentInvoice(rows) ==
  CHOOSE row \in rows : \A other \in rows : other.createdAt <= row.createdAt

\* Lines 77-101: the invoice and its line items as the response gives them;
\* amounts of the model are in hundredths, as the cents of the tables.
InvoiceData(row, lineItems) ==
  [invoiceId |-> row.id, invoiceNumber |-> row.invoiceNumber,
   vendor |-> row.vendorName, customer |-> row.customerName, total |-> row.amount,
   items |-> {[description |-> item.description, quantity |-> item.quantity,
               unitPrice |-> item.unitPrice, amount |-> item.amount] :
                item \in lineItems}]

\* Lines 114-141 and 164-198: what the storage of the other branch holds
\* for any key, a sample invoice.
StoredExtractedData ==
  [invoiceId |-> "nanoid", invoiceNumber |-> "INV-2023-001",
   vendor |-> "Sample Vendor Corp", customer |-> "Client Company Ltd",
   total |-> 29999, items |-> {}]

ProcessResponse(status, error, invoiceData) ==
  [status |-> status, error |-> error, extractedData |-> invoiceData]

\* Lines 55-105 and 112-141: the handler for a valid request with a session.
\* The most recent row of table invoice is answered whatever fileReference
\* names; the timestamp of lines 58-59 is only logged.
ProcessFile(q) ==
  /\ processResponse = <<>>
  /\ processRequest' = <<q>>
  /\ processResponse' =
       IF ~q.agentInitiated
       THEN <<ProcessResponse(200, "", <<StoredExtractedData>>)>>
       ELSE IF invoiceTable = {}
       THEN <<ProcessResponse(404, "No invoice found in database", <<>>)>>
       ELSE <<ProcessResponse(200, "",
                <<InvoiceData(MostRecentInvoice(invoiceTable),
                              {item \in lineItemTable :
                                 item.invoiceId = MostRecentInvoice(invoiceTable).id})>>)>>
  /\ UNCHANGED <<reconVars, mergeVars, extractVars, parseVars, validateVars, regexVars,
                 checkVars, uploadVars>>

\* Lines 106-111: a select throws.
ProcessFileFails(q) ==
  /\ processResponse = <<>>
  /\ q.agentInitiated
  /\ processRequest' = <<q>>
  /\ processResponse' = <<ProcessResponse(500, "Failed to retrieve invoice data", <<>>)>>
  /\ UNCHANGED <<reconVars, mergeVars, extractVars, parseVars, validateVars, regexVars,
                 checkVars, uploadVars>>

ProcessNext ==
  \/ UploadNext
  \/ \E q \in ProcessRequests : ProcessFile(q)
  \/ \E q \in ProcessRequests : ProcessFileFails(q)

SpecProcess == UploadInit /\ [][ProcessNext]_vars

(***************************************************************************)
(* Claims about the reconciler.                                            *)
(***************************************************************************)
\* The numeric value a field denotes once coerced.
Coerced(v) == IF v.k = "str" THEN CoerceString(v) ELSE v

\* quantity x unitPrice of an input item, in ten-thousandths.
Product(item) == Coerced(item.quantity).n * Coerced(item.unitPrice).n

\* |amount - quantity x unitPrice| of an input item, in ten-thousandths.
Deviation(item) == Abs(Coerced(item.amount).n * 100 - Product(item))

\* C1: reconciling the reconciler's own output changes no value: every
\* item's quantity, unitPrice and amount and the subtotal, tax and total of
\* validateInvoiceData(validateInvoiceData(x)) equal those of
\* validateInvoiceData(x).
C1_Idempotent ==
  revalidated # <<>> =>
    /\ Len(revalidated[1].items) = Len(validated[1].items)
    /\ \A i \in 1..Len(validated[1].items) :
         /\ revalidated[1].items[i].quantity = validated[1].items[i].quantity
         /\ revalidated[1].items[i].unitPrice = validated[1].items[i].unitPrice
         /\ revalidated[1].items[i].amount = validated[1].items[i].amount
    /\ revalidated[1].subtotal = validated[1].subtotal
    /\ revalidated[1].tax = validated[1].tax
    /\ revalidated[1].total = validated[1].total

\* A second pass ran on a record whose first pass had rewritten an item
\* amount and the total.
C1_Witness ==
  /\ revalidated # <<>>
  /\ Len(data.items) > 0
  /\ validated[1].items[1].amount # Coerced(data.items[1].amount)
  /\ validated[1].total # Coerced(data.total)

\* C2: an item whose amount differs from quantity x unitPrice by more than
\* 0.10 gets quantity x unitPrice rounded to 2 decimals; an item within 0.10
\* keeps its amount; afterwards every item is within 0.10 of its product.
C2_AmountReconciled ==
  validated # <<>> =>
    \A i \in 1..Len(data.items) :
      LET in == data.items[i]
          out == validated[1].items[i]
      IN /\ Deviation(in) > 1000 => out.amount = Num(RoundToHundredths(Product(in)))
         /\ Deviation(in) <= 1000 => out.amount = Coerced(in.amount)
         /\ IsNum(out.amount) /\ IsNum(out.quantity) /\ IsNum(out.unitPrice)
         /\ Abs(out.amount.n * 100 - out.quantity.n * out.unitPrice.n) <= 1000

\* quantity 3, unitPrice 10.00, amount 25.00 became amount 30.00, next to an
\* item 0.09 off that kept its amount.
C2_Witness ==
  /\ validated # <<>>
  /\ Len(data.items) = 2
  /\ data.items[1] = [description |-> "Widget", quantity |-> Num(300),
                      unitPrice |-> Num(1000), amount |-> Str(<<"2", "5", ".", "0", "0">>)]
  /\ validated[1].items[1].amount = Num(3000)
  /\ data.items[2].quantity = Num(300) /\ data.items[2].unitPrice = Num(1000)
  /\ data.items[2].amount = Num(3009)
  /\ validated[1].items[2].amount = Num(3009)

\* The items sum, tax and total the reconciler compares: the reconciled
\* amounts summed, and the coerced tax and total of the input.
ItemsSum(out) == SumAmounts(out.items).n
TaxOf(d) == Coerced(d.tax).n
TotalOf(d) == Coerced(d.total).n

TaxExplains(d, out) ==
  /\ Abs(ItemsSum(out) - TotalOf(d)) > 100
  /\ Abs(ItemsSum(out) + TaxOf(d) - TotalOf(d)) <= 100

\* C3: when the items sum differs from the total by more than 1 but items
\* sum + tax is within 1 of the total, the reconciler (either route variant)
\* returns the total unchanged.
C3_TaxExceptionKeepsTotal ==
  /\ validated # <<>> /\ TaxExplains(data, validated[1])
       => validated[1].total = Coerced(data.total)
  /\ validatedV1 # <<>> /\ TaxExplains(data, validatedV1[1])
       => validatedV1[1].total = Coerced(data.total)

\* C4: in validateInvoiceData, when the items sum and the items sum + tax
\* both differ from the total by more than 1, the total becomes items sum +
\* tax rounded to 2 decimals; when the items sum is within 1 of the total,
\* the total is unchanged.
C4_TotalCorrected ==
  validated # <<>> =>
    LET out == validated[1]
    IN /\ ( /\ Abs(ItemsSum(out) - TotalOf(data)) > 100
            /\ Abs(ItemsSum(out) + TaxOf(data) - TotalOf(data)) > 100 )
          => out.total = Num(ItemsSum(out) + TaxOf(data))
       /\ Abs(ItemsSum(out) - TotalOf(data)) <= 100
          => out.total = Coerced(data.total)

\* Items summing to 100.00, tax 0, total 150.00: the total became 100.00.
C4_Witness ==
  /\ validated # <<>>
  /\ Len(data.items) = 1
  /\ data.items[1] = [description |-> "Widget", quantity |-> Num(1000),
                      unitPrice |-> Num(1000), amount |-> Num(10000)]
  /\ data.tax = Num(0)
  /\ data.total = Num(15000)
  /\ validated[1].total = Num(10000)

(***************************************************************************)
(* Claims about the merger.                                                *)
(***************************************************************************)
\* The passes of the merge over the results in descending confidence.
Passes == MergeStates(SortByConfidence(results))

Final == Passes[Len(Passes)]

\* Section 4.4's "empty or default": empty string, "Unknown", "Unknown
\* Vendor", "Unknown Customer", zero total, an absent value, or an items list
\* that is empty or is the single items-not-detected placeholder.
NotDetected(items) ==
  \/ items = <<>>
  \/ Len(items) = 1 /\ items[1].description \in {"Item not detected", "Unable to extract items"}

EmptyOrDefault(value, field) ==
  CASE field \in StringFields -> value \in {"", "Unknown", "Unknown Vendor", "Unknown Customer"}
    [] field = "items" -> NotDetected(value)
    [] field = "total" -> value = Num(0) \/ value = Undef
    [] OTHER -> value = Undef

HasGenuineItem(items) ==
  \E i \in 1..Len(items) :
    items[i].description \notin {"Item not detected", "Unable to extract items"}

\* C6: for a higher-confidence result A and a lower-confidence result B, in
\* whatever order they were passed, every field that is empty/default in A
\* and not empty/default in B carries B's value in mergeExtractionResults([A,B])
\* (for items and total: in the merged record as it enters the closing
\* reconciliation, which may still rewrite amounts and total).
C6_MergeFillsDefaults ==
  (merged # <<>> /\ Len(results) = 2) =>
    \A f \in MergeFields :
      ( /\ EmptyOrDefault(results[1].data[f], f)
        /\ ~EmptyOrDefault(results[2].data[f], f) )
      => /\ MergedFields(results)[f] = results[2].data[f]
         /\ f \notin {"items", "total"} => merged[1][f] = results[2].data[f]

\* C7: when the running merged items are the single placeholder item
\* "Item not detected" and the lower-confidence result being merged has a
\* genuine line item, the merged items become that result's items.
C7_PlaceholderReplaced ==
  merged # <<>> =>
    \A i \in 2..Len(results) :
      ( /\ Passes[i - 1].rec.items = <<ItemNotDetected>>
        /\ HasGenuineItem(results[i].data.items) )
      => Passes[i].rec.items = results[i].data.items

\* C8: a lower-confidence result's items replace the running merged items
\* if and only if the current items are empty/default and the alternative's
\* are not, or the alternative has strictly more items and the current list
\* has at most 1; a current list of 2 or more items is never replaced.
C8_ItemsOverrideRule ==
  merged # <<>> =>
    \A i \in 2..Len(results) :
      LET cur == Passes[i - 1].rec.items
          alt == results[i].data.items
          replaced == Passes[i].rec.items # cur
      IN /\ replaced <=>
              \/ EmptyOrDefault(cur, "items") /\ ~EmptyOrDefault(alt, "items")
              \/ Len(alt) > Len(cur) /\ Len(cur) <= 1
         /\ replaced => Passes[i].rec.items = alt
         /\ Len(cur) >= 2 => ~replaced

Listed(method) ==
  \E j \in 1..Len(merged[1].extractionMethods) : merged[1].extractionMethods[j] = method

\* C9 as stated: a strategy is listed in extractionMethods if and only if
\* some non-default field value of the merged record was taken from its result.
C9_ExactlyContributors ==
  merged # <<>> =>
    \A i \in 1..Len(results) :
      Listed(results[i].method) <=>
        \E f \in MergeFields :
          /\ Final.from[f] = results[i].method
          /\ ~EmptyOrDefault(merged[1][f], f)

\* C9 as amended: extractionMethods starts with the highest-confidence
\* result's method whatever its values, and lists a lower-confidence method
\* if and only if its pass copied at least one field into the running merged
\* record, in confidence order and without repetition.
C9_MethodsListed ==
  merged # <<>> =>
    LET ext == merged[1].extractionMethods
    IN /\ Len(ext) >= 1
       /\ ext[1] = results[1].method
       /\ \A i \in 2..Len(results) :
            Listed(results[i].method) <=> Passes[i].rec # Passes[i - 1].rec
       /\ \A j \in 1..Len(ext) : \E i \in 1..Len(results) : ext[j] = results[i].method
       /\ \A j, k \in 1..Len(ext) : ext[j] = ext[k] => j = k
       /\ \A j, k \in 1..Len(ext) : j < k => Confidence(ext[j]) > Confidence(ext[k])

\* A three-way merge whose first result has nothing resolved: its method is
\* listed all the same, the second result fills the record and is listed,
\* and the third changes nothing and is not.
C9_Witness ==
  /\ merged # <<>>
  /\ Len(results) = 3
  /\ \A f \in MergeFields : isEmptyOrDefault(results[1].data[f], f)
  /\ merged[1].extractionMethods = <<results[1].method, results[2].method>>
  /\ Passes[2].rec # Passes[1].rec
  /\ Passes[3].rec = Passes[2].rec

(***************************************************************************)
(* Claims about the orchestrator.                                          *)
(***************************************************************************)
\* |amount - quantity x unitPrice| <= 0.10 for an item of a returned record.
Consistent(item) ==
  /\ IsNum(item.amount) /\ IsNum(item.quantity) /\ IsNum(item.unitPrice)
  /\ Abs(item.amount.n * 100 - item.quantity.n * item.unitPrice.n) <= 100 * AmountTolerance

\* C5: every record returned by extractInvoiceData, whichever strategies
\* produced it (the regex strategy alone included), has each of its line
\* items within 0.10 of quantity x unitPrice, as the reconciler leaves them.
C5_ReturnedReconciled ==
  (pc = "done" /\ "items" \in DOMAIN returned[1]) =>
    \A i \in 1..Len(returned[1].items) : Consistent(returned[1].items[i])

\* The place of a strategy in the order vision, text model, regex.
Rank(method) ==
  CASE method = "gemini" -> 1 [] method = "openai" -> 2 [] method = "regex" -> 3

\* The vision result of the run has at least one item and a positive total.
VisionSucceeded ==
  /\ Len(extractionResults) > 0
  /\ extractionResults[1].method = "gemini"
  /\ HasItemsAndTotal(extractionResults[1].data)

\* C10: strategies are attempted in the order vision, text model, regex, and
\* in every run in which the vision result has at least one item and a
\* positive total neither the text model nor the regex strategy is attempted
\* afterwards and the vision result is what is returned.
C10_ShortCircuit ==
  /\ \A i, j \in 1..Len(attempted) : i < j => Rank(attempted[i]) < Rank(attempted[j])
  /\ VisionSucceeded =>
       /\ attempted = <<"gemini">>
       /\ pc = "done" => returned = <<extractionResults[1].data>>

\* C11: the vision strategy is attempted only when vision credentials are
\* configured and the document is a JPEG or PNG by signature: for a PDF, or
\* without credentials, extractInvoiceData issues no vision request.
C11_VisionOnlyForImages ==
  \A i \in 1..Len(attempted) :
    attempted[i] = "gemini" => GEMINI_API_KEY /\ (isJPEG \/ isPNG)

\* C12: when the text-model call throws or its reply is not parsable JSON,
\* the orchestrator records no ExtractionResult attributed to the text model
\* (no entry with method 'openai'), so the merge is computed only from the
\* strategies that succeeded.
C12_TextModelFailureNoResult ==
  "openai" \in failed =>
    \A i \in 1..Len(extractionResults) : extractionResults[i].method # "openai"

\* C14: extractInvoiceData never raises: for every combination of strategy
\* outcomes, a vision or text-model reply that is valid JSON but lacks the
\* items array included, it returns a record instead of throwing 'Failed to
\* extract invoice data'.
C14_NeverRaises == pc # "thrown"

\* The results of the run attributed to a strategy.
ResultsOf(method) ==
  {i \in 1..Len(extractionResults) : extractionResults[i].method = method}

\* C13: when the vision call throws, returns no JSON block or returns
\* malformed JSON, extractInvoiceData records no vision result, does not
\* raise, and continues with the remaining strategies as if vision had not
\* been configured: with enough text the regex strategy (and the text model
\* when its key is set) produces a result and the return value is computed
\* from those results alone; without, the default record is returned.
C13_VisionFailureContained ==
  "gemini" \in failed =>
    /\ ResultsOf("gemini") = {}
    /\ pc # "thrown"
    /\ pc = "done" =>
         /\ returned = <<ReturnValue(extractionResults)>>
         /\ IF extractedText.long
            THEN /\ ResultsOf("regex") # {}
                 /\ OPENAI_API_KEY => ResultsOf("openai") # {}
            ELSE returned = <<DefaultRecord>>

\* A run whose vision call failed and which went on to merge the text
\* model's and the regex strategy's results.
C13_Witness ==
  /\ "gemini" \in failed
  /\ pc = "done"
  /\ attempted = <<"gemini", "openai", "regex">>
  /\ Len(extractionResults) = 2
  /\ returned[1].extractionMethods # <<>>

(***************************************************************************)
(* Claims about the validator.                                             *)
(***************************************************************************)
\* An item that is not one of the two placeholders.
Genuine(item) == item.description \notin {"Item not detected", "Unable to extract items"}

\* C17: validateIsInvoice returns true only if the record has a non-default
\* invoice number, at least one genuine (non-placeholder) line item, a
\* positive numeric total and a non-default vendor, and none of the
\* rejection rules is triggered; a record missing any one of these four is
\* always rejected.
C17_AcceptanceConditions ==
  isInvoice # <<>> =>
    LET d == candidate
        numbered == d.invoiceNumber \notin {"", "Unknown"}
        itemised == \E i \in 1..Len(d.items) : Genuine(d.items[i])
        totalled == d.total.k = "num" /\ d.total.n > 0
        vended == d.vendor \notin {"", "Unknown Vendor"}
    IN /\ isInvoice[1] => numbered /\ itemised /\ totalled /\ vended /\ ~Rejected(d)
       /\ ~(numbered /\ itemised /\ totalled /\ vended) => ~isInvoice[1]

\* An accepted record, and a record with everything but a numeric total
\* that was rejected.
C17_Witness ==
  /\ isInvoice = <<TRUE>>
  /\ candidate.vendor = "Acme Corp"
  /\ Len(candidate.items) = 2

\* The rejection rules other than the statement-structure rule.
OtherRule(d) ==
  \/ MatchesAny(statementKeywords, allTextFields(d))
  \/ MatchesAny(receiptKeywords, allTextFields(d))
  \/ hasReceiptStructure(d)
  \/ isCondoStatement(d)
  \/ isEmptyInvoice(d)
  \/ hasNumericInconsistency(d)

\* C18: the statement-structure rule applies only to records without an
\* invoice number: a record that has an invoice number, a genuine first
\* item, a positive total and a vendor, and that triggers no other rule, is
\* accepted even when its text holds "payment" and "balance" or "balance"
\* and "transaction".
C18_StructureOnlyWithoutNumber ==
  isInvoice # <<>> =>
    (/\ hasInvoiceNumber(candidate)
     /\ hasLineItems(candidate)
     /\ hasTotal(candidate)
     /\ hasVendorInfo(candidate)
     /\ ~OtherRule(candidate)
     => isInvoice[1])

\* Texts of the model that a statement keyword or a receipt keyword matches.
KeywordTexts == {"Account Statement", "Opening Balance", "Closing Balance", "Store Receipt"}

HoldsKeyword(d) ==
  \/ d.vendor \in KeywordTexts
  \/ d.customer \in KeywordTexts
  \/ d.invoiceNumber \in KeywordTexts
  \/ \E i \in 1..Len(d.items) : d.items[i].description \in KeywordTexts

\* C19: a record one of whose vendor, customer, invoice number or item
\* descriptions matches a statement keyword or a receipt keyword is
\* rejected, even with a valid invoice number, genuine items, a positive
\* total and a vendor; a record shaped like a bank statement (account
\* statement, opening and closing balance) without invoice number is
\* rejected.
C19_KeywordRejects ==
  isInvoice # <<>> =>
    /\ HoldsKeyword(candidate) => ~isInvoice[1]
    /\ (/\ candidate.invoiceNumber \in {"", "Unknown"}
        /\ candidate.customer = "Account Statement"
        /\ \E i \in 1..Len(candidate.items) :
             candidate.items[i].description \in {"Opening Balance", "Closing Balance"})
       => ~isInvoice[1]

\* A record rejected for a keyword alone: it has the four properties and
\* triggers none of the structural rules.
C19_Witness ==
  /\ isInvoice = <<FALSE>>
  /\ HoldsKeyword(candidate)
  /\ hasInvoiceNumber(candidate)
  /\ hasLineItems(candidate)
  /\ hasTotal(candidate)
  /\ hasVendorInfo(candidate)
  /\ ~RejectedByStructureOnly(candidate)

(***************************************************************************)
(* Claims about the run that finds nothing.                                *)
(***************************************************************************)
\* C15: when no strategy produces a result (vision unavailable or failed,
\* no usable extracted text), extractInvoiceData does not raise and returns
\* the record made of sentinel and zero values only: invoiceNumber
\* "Unknown", vendor "Unknown Vendor", customer "Unknown Customer",
\* subtotal, tax and total 0 and one placeholder item with quantity 1,
\* unitPrice 0 and amount 0; validateIsInvoice rejects that record.
C15_NoSignal ==
  /\ pc = "thrown" => extractionResults # <<>>
  /\ (pc = "done" /\ ResultsOf("gemini") = {} /\ ~extractedText.long)
       => extractionResults = <<>>
  /\ (pc = "done" /\ extractionResults = <<>>) =>
       /\ Len(returned) = 1
       /\ returned[1].invoiceNumber = "Unknown"
       /\ returned[1].vendor = "Unknown Vendor"
       /\ returned[1].customer = "Unknown Customer"
       /\ returned[1].subtotal = Num(0)
       /\ returned[1].tax = Num(0)
       /\ returned[1].total = Num(0)
       /\ Len(returned[1].items) = 1
       /\ returned[1].items[1].description = "Unable to extract items"
       /\ returned[1].items[1].quantity = Num(100)
       /\ returned[1].items[1].unitPrice = Num(0)
       /\ returned[1].items[1].amount = Num(0)
       /\ ~validateIsInvoice(returned[1])

\* The vision call failed, the text was too short to parse, and the run
\* returned.
C15_Witness ==
  /\ pc = "done"
  /\ "gemini" \in failed
  /\ extractionResults = <<>>
  /\ returned # <<>>

(***************************************************************************)
(* Claims about the item parser.                                           *)
(***************************************************************************)
\* No pattern that ran found an item: the three of the section under a
\* header line, and the three over the whole text.
NoStageFound(text) ==
  /\ text.header => text.rows = <<>> /\ text.counted = <<>> /\ text.numbered = <<>>
  /\ text.standard = <<>>
  /\ text.priced = <<>>
  /\ text.currency = <<>>

C20_RejectionNotPersisted ==
  \A r \in Requests :
    (extractedData[r] # <<>> /\ ~validateIsInvoice(extractedData[r][1])) =>
      /\ step[r] = "done"
      /\ Len(response[r]) = 1
      /\ response[r][1].status = 200
      /\ response[r][1].error = ""
      /\ response[r][1].isStatement
      /\ response[r][1].message # ""
      /\ \A row \in invoiceTable : row.id # r
      /\ \A row \in lineItemTable : row.invoiceId # r

\* A request turned down for its record while the other request stored
\* its invoice and a line item.
C20_Witness ==
  \E r \in Requests :
    /\ extractedData[r] # <<>>
    /\ ~validateIsInvoice(extractedData[r][1])
    /\ response[r] # <<>>
    /\ invoiceTable # {}
    /\ lineItemTable # {}

(***************************************************************************)
(* Claims about the regex strategy.                                        *)
(***************************************************************************)
\* The calendar day a number of days after a date of the model, as an ISO
\* date; "none" is the day of the run.
DaysAfter(date, days) ==
  CASE date = "none" -> IF days = 30 THEN "today+30" ELSE "today+15"
    [] OTHER -> IF days = 30 THEN "2024-04-14" ELSE "2024-03-30"

\* C21: the regex strategy uses an explicit due date found in the text;
\* otherwise, with "Net N days" terms, the invoice date plus N days;
\* otherwise the invoice date plus 30 days when the invoice date was
\* resolved, and today plus 30 days only when it was not.
C21_DueDateResolution ==
  regexData # <<>> =>
    /\ regexText.due # "none" => regexData[1].dueDate = regexText.due
    /\ (regexText.due = "none" /\ regexText.net > 0)
         => regexData[1].dueDate = DaysAfter(regexText.date, regexText.net)
    /\ (regexText.due = "none" /\ regexText.net = 0)
         => regexData[1].dueDate = DaysAfter(regexText.date, 30)

\* The sum of the amounts of the items returned, in hundredths.
ReturnedItemsSum == SumAmounts(regexData[1].items).n

\* The total the labels or the largest amount gave, and its confidence in
\* hundredths: 0.9 for Total and Amount Due, 0.7 for Amount, 0.5 for the
\* largest amount.
LabelledTotal ==
  IF regexText.label # "none" /\ regexText.amount > 0 THEN regexText.amount
  ELSE regexText.largest

TotalScore ==
  IF regexText.label \in {"Total", "Amount Due"} /\ regexText.amount > 0 THEN 90
  ELSE IF regexText.label = "Amount" /\ regexText.amount > 0 THEN 70
  ELSE 50

\* C22: the total the regex strategy returns is the sum of the line-item
\* amounts if and only if that sum differs from the extracted total by more
\* than 1 and either the discrepancy is under 20% of the total or the
\* confidence of the items (0.8) exceeds that of the total; in every other
\* case it is the extracted total.
C22_TotalPostPass ==
  regexData # <<>> =>
    LET replaced ==
          /\ Abs(ReturnedItemsSum - LabelledTotal) > 100
          /\ \/ LabelledTotal > 0 /\ 100 * Abs(ReturnedItemsSum - LabelledTotal) < 20 * LabelledTotal
             \/ 80 > TotalScore
    IN regexData[1].total = Num(IF replaced THEN ReturnedItemsSum ELSE LabelledTotal)

\* A total under the label Total that is off by less than a fifth was
\* replaced by the sum of the rows.
C22_Witness ==
  /\ regexData # <<>>
  /\ regexText.label = "Total"
  /\ regexText.rows # <<>>
  /\ regexData[1].total # Num(regexText.amount)
  /\ regexData[1].total = Num(ReturnedItemsSum)

\* C26: when extractItemsFromText returned only the placeholder and a
\* positive total was found under a label or as the largest amount, the
\* regex strategy returns that total and not the placeholder's sum of 0.
C26_PlaceholderKeepsTotal ==
  regexData # <<>> =>
    (regexData[1].items = <<ItemNotDetected>> /\ LabelledTotal > 0
       => regexData[1].total = Num(LabelledTotal))

(***************************************************************************)
(* Claims about the header fields of a merge.                              *)
(***************************************************************************)
\* The result of the highest confidence among those handed to the merge.
Highest ==
  CHOOSE r \in {results[i] : i \in 1..Len(results)} :
    \A i \in 1..Len(results) : r.confidence >= results[i].confidence

\* A header value that is neither empty nor one of the defaults.
Resolved(value) == value \notin {"", "Unknown", "Unknown Vendor", "Unknown Customer"}

AfterTheGate == {"extractInvoiceData", "check-duplicate", "insert invoice", "insert lineItem"}

Awaited(r) == {awaited[r][i] : i \in 1..Len(awaited[r])}

C25_DuplicateBlocksInsert ==
  [][\A r \in Requests :
       step[r] = "check-duplicate" /\ step'[r] # "check-duplicate" =>
         LET d == extractedData[r][1]
             same == {row \in invoiceTable :
                        /\ row.invoiceNumber = d.invoiceNumber
                        /\ row.vendorName = d.vendor
                        /\ row.amount = d.total.n}
         IN /\ invoiceTable' = invoiceTable
            /\ lineItemTable' = lineItemTable
            /\ IF same # {} /\ ~upload[r].duplicateError
               THEN /\ step'[r] = "done"
                    /\ response'[r][1].isDuplicate
                    /\ response'[r][1].status = 200
                    /\ response'[r][1].invoiceId \in {row.id : row \in same}
                    /\ \A row \in invoiceTable' : row.id # r
                    /\ \A row \in lineItemTable' : row.invoiceId # r
               ELSE step'[r] = "insert invoice"]_vars

\* A request answered as a duplicate of the invoice the other one stored.
C25_Witness ==
  \E r, o \in Requests :
    /\ o # r
    /\ step[r] = "done"
    /\ response[r][1].isDuplicate
    /\ response[r][1].invoiceId = o
    /\ \A row \in invoiceTable : row.id = o

\* C27: after any interleaving of concurrent uploads, table invoice never
\* holds two rows with the same invoice number, vendor and amount in cents.
\* Stated for the requests whose duplicate check was answered: a request
\* whose check failed goes on to the insert by design.
C27_NoDuplicateRows ==
  \A a, b \in invoiceTable :
    (/\ a.id # b.id
     /\ ~upload[a.id].duplicateError
     /\ ~upload[b.id].duplicateError)
    => ~(/\ a.invoiceNumber = b.invoiceNumber
         /\ a.vendorName = b.vendorName
         /\ a.amount = b.amount)

\* C28: if a request is answered with the 422 'Invoice processing failed'
\* error, no invoice row and no line-item row written by that request
\* remains in the database.
C28_FailureLeavesNothing ==
  \A r \in Requests :
    (response[r] # <<>> /\ response[r][1].status = 422) =>
      /\ \A row \in invoiceTable : row.id # r
      /\ \A row \in lineItemTable : row.invoiceId # r

(***************************************************************************)
(* Claims about the preliminary check.                                     *)
(***************************************************************************)
\* C29: preliminaryDocumentTypeCheck returns true whenever it cannot obtain
\* a vision verdict: for a file that is not a PDF, without GEMINI_API_KEY,
\* and when the vision call fails or returns unusable output.
C29_NoVerdictAllows ==
  (/\ checkResult # <<>>
   /\ \/ checkedFile.type # "application/pdf"
      \/ ~checkedFile.key
      \/ checkedFile.reply = <<>>)
  => checkResult = <<TRUE>>

(***************************************************************************)
(* Claims about the retrieval by the agent.                                *)
(***************************************************************************)
\* The upload of r was answered with the invoice it stored.
Persisted(r) == response[r] = <<InvoiceResponse(r)>>

\* C30: an agent-initiated process request whose selects succeed answers
\* with the invoice and line items created from the file its fileReference
\* names, when the upload of that file has been persisted, and answers 404
\* only when table invoice is empty.
C30_ReturnsReferencedInvoice ==
  [][(/\ processResponse = <<>>
      /\ processResponse' # <<>>
      /\ processRequest'[1].agentInitiated
      /\ processResponse'[1].status # 500)
     => /\ processResponse'[1].status = 404 => invoiceTable = {}
        /\ Persisted(processRequest'[1].fileReference) =>
             /\ processResponse'[1].extractedData # <<>>
             /\ \E row \in invoiceTable :
                  /\ row.id = processRequest'[1].fileReference
                  /\ processResponse'[1].extractedData[1] =
                       InvoiceData(row, {item \in lineItemTable : item.invoiceId = row.id})]_vars

====
